---- MODULE Spec2Model ----
(***************************************************************************)
(* A model of the query-answering pipeline of the MCMP chatbot:            *)
(*   src/src/core/engine.py   RAGEngine (decompose_query,                  *)
(*                            retrieve_with_decomposition,                 *)
(*                            generate_response)                           *)
(*   src/src/mcp/server.py    MCPServer (tools, call_tool)                 *)
(*   src/src/mcp/tools.py     get_events, search_people, search_graph      *)
(*   src/src/core/graph_utils.py                                           *)
(*                            GraphUtils (_load_graph, _parse_table,       *)
(*                            _build_adjacency_list, get_subgraph,         *)
(*                            to_natural_language)                         *)
(*                                                                         *)
(* The specifications share the operators:                                 *)
(*   SpecRetrieval  direct calls of decompose_query and of                 *)
(*                  retrieve_with_decomposition on one engine;             *)
(*   Spec           one generate_response call, step by step (retrieval,   *)
(*                  first model call, tool loop, second model call);       *)
(*   SpecGraph      get_subgraph and search_graph calls on a loaded graph; *)
(*   SpecParse      _load_graph on a graph file;                           *)
(*   SpecEvents     one get_events call on the event records;              *)
(*   SpecPeople     one search_people call on the person records;          *)
(*   SpecConstruct  one RAGEngine(provider, api_key) call;                 *)
(*   SpecCache      decompose_query calls through its lru_cache.           *)
(*                                                                         *)
(* External components are modelled by their outcomes: an LLM call either  *)
(* raises or replies; the vector index either raises or returns one ranked *)
(* id list per query text; a tool function either raises or returns.       *)
(* The data tools and the graph index are modelled on their records; every *)
(* str they match or compare is the sequence of its characters.            *)
(***************************************************************************)
EXTENDS Integers, Sequences, FiniteSets, TLC

VARIABLES
    provider,      \* RAGEngine.provider
    use_mcp,       \* RAGEngine.use_mcp (mcp_server is None iff FALSE)
    question,      \* the user_question / query argument of the call
    r_op,          \* SpecRetrieval: "idle", or the method that was called
    llm_out,       \* outcome of the LLM call made by decompose_query
    dq_ret,        \* what decompose_query did: [kind, value]
    vs_calls,      \* the calls made to VectorStore.query, in order
    vs_out,        \* outcome of the VectorStore.query call
    ret_kind,      \* retrieve_with_decomposition: "none", "return", "raise"
    all_chunks,    \* the list retrieve_with_decomposition returned
    chunk_ids,     \* for each returned chunk, the index id it came from
    pc,            \* generate_response: position in the method
    use_mcp_tools, \* generate_response argument
    tools_sent,    \* whether the first model call carried tool definitions
    messages,      \* the OpenAI conversation list
    tool_calls,    \* message.tool_calls of the first response
    tool_idx,      \* index of the next tool call to execute
    model_calls,   \* number of chat-model calls issued so far
    tool_log,      \* invocations of MCPServer.call_tool, in order
    responses,     \* the chat-model responses received, in order
    exc,           \* where an exception was raised inside the try block
    result,        \* what generate_response did: [kind, value]
    nodes,         \* GraphUtils.nodes
    edges,         \* GraphUtils.edges
    adj_list,      \* GraphUtils.adj_list
    g_call,        \* arguments of the last get_subgraph call
    subgraph,      \* the dict the last get_subgraph call returned
    graph_text,    \* the str the last search_graph call returned
    graph_file,    \* SpecParse: the graph file _load_graph reads
    env,           \* SpecConstruct: the credentials in os.environ
    ctor,          \* SpecConstruct: what RAGEngine(...) did
    cache,         \* the lru_cache of decompose_query: question -> list
    llm_up,        \* SpecCache: whether the LLM API answers
    events,        \* the records of data/raw_events.json
    today,         \* get_events: datetime.now() at the call
    e_call,        \* arguments of the get_events call
    e_kept,        \* get_events: the events appended to results, in order
    e_ret,         \* what get_events did: [kind, order, value]
    people,        \* the records of data/people.json
    p_call,        \* arguments of the search_people call
    p_ret          \* what search_people returned: [order, value]

rvars == <<question, r_op, llm_out, dq_ret, vs_calls, vs_out, ret_kind,
           all_chunks, chunk_ids>>
gvars == <<pc, use_mcp_tools, tools_sent, messages, tool_calls, tool_idx,
           model_calls, tool_log, responses, exc, result>>
\* the state of the graph index and of the data tools
tvars == <<nodes, edges, adj_list, g_call, subgraph, graph_text, graph_file,
           env, ctor, cache, llm_up,
           events, today, e_call, e_kept, e_ret,
           people, p_call, p_ret>>
vars == <<provider, use_mcp, rvars, gvars, tvars>>

----------------------------------------------------------------------------
(* Bounds of the model.                                                    *)

\* longest LLM reply, in lines, given to a direct decompose_query call
MaxReplyLines == 5
\* number of distinct ids the vector index holds
NumIds == 2
\* most tool calls the first model response requests
MaxToolCalls == 2

(* Program constants.                                                      *)

\* the length a description or an abstract must exceed to be formatted
LongText == 50
\* queries[:4]
MaxQueries == 4
\* top_k=3, passed as n_results
TopK == 3

----------------------------------------------------------------------------
(* Small helpers.                                                          *)

Range(s) == {s[i] : i \in 1..Len(s)}

Min(a, b) == IF a < b THEN a ELSE b

SeqsUpTo(S, n) == UNION {[1..k -> S] : k \in 0..n}

\* ranked lists without repetition: an index never returns an id twice for
\* one query text
InjSeqsUpTo(S, n) ==
    {s \in SeqsUpTo(S, n) : \A i, j \in 1..Len(s) : i # j => s[i] # s[j]}

----------------------------------------------------------------------------
(* Engine construction: provider values the constructor accepts when an    *)
(* api_key is passed explicitly (any string, recognised or not).           *)

KnownProviders == {"openai", "anthropic", "gemini"}

Providers == KnownProviders \cup {"mistral"}

----------------------------------------------------------------------------
(* decompose_query                                                         *)

Questions == {"Q", " Q "}

\* the raw lines an LLM reply is made of: the question, the question with
\* surrounding blanks, another query, a blank line
RawLines == {"Q", " Q ", "a", " "}

\* str.strip()
Strip(s) == CASE s = " Q " -> "Q" [] s = " " -> "" [] OTHER -> s

\* outcomes of the LLM call: it raises, its reply carries no text (None),
\* or its reply is a text of n lines
LLMOutcomes(n) ==
    {[kind |-> "raise", lines |-> <<>>], [kind |-> "none", lines |-> <<>>]}
    \cup {[kind |-> "text", lines |-> l] : l \in SeqsUpTo(RawLines, n)}

\* [q.strip() for q in text.strip().split('\n') if q.strip()]
ParseLines(lines) ==
    SelectSeq([i \in 1..Len(lines) |-> Strip(lines[i])], LAMBDA q : q # "")

\* if user_question not in queries: queries.insert(0, user_question)
InsertOriginal(queries, user_question) ==
    IF user_question \in Range(queries)
    THEN queries
    ELSE <<user_question>> \o queries

\* queries[:4]
Cap(queries) == SubSeq(queries, 1, Min(Len(queries), MaxQueries))

\* variant: the except clause lets the exception out
DecomposeFallbackRaises(user_question) == [kind |-> "raise", value |-> <<>>]

\* except Exception: return [user_question]
DecomposeFallback(user_question) ==
    [kind |-> "return", value |-> <<user_question>>]

decompose_query(prov, user_question, out) ==
    IF prov \notin KnownProviders
    THEN [kind |-> "return", value |-> <<user_question>>]
    ELSE IF out.kind = "raise" THEN DecomposeFallback(user_question)
    \* text is None: text.strip() raises AttributeError inside the try
    ELSE IF out.kind = "none" THEN DecomposeFallback(user_question)
    ELSE [kind |-> "return",
          value |-> Cap(InsertOriginal(ParseLines(out.lines), user_question))]

----------------------------------------------------------------------------
(* retrieve_with_decomposition                                             *)

Ids == 1..NumIds

\* what the index returned at rank i of sub-query q_idx; the model names a
\* document and a metadata map by the position they were returned at
Doc(q_idx, i) == <<"doc", q_idx, i>>
Meta(q_idx, i) == <<"meta", q_idx, i>>
EmptyMeta == <<"meta", 0, 0>>

\* outcomes of VectorStore.query for n query texts: it raises, or returns
\* one ranked id list (at most n_results long) per query text
VsOutcomes(n) ==
    {[kind |-> "raise", ids |-> <<>>, has_metadatas |-> FALSE]}
    \cup {[kind |-> "return", ids |-> ids, has_metadatas |-> m] :
            ids \in [1..n -> InjSeqsUpTo(Ids, Min(TopK, NumIds))],
            m \in BOOLEAN}

RECURSIVE PositionsFrom(_, _)
PositionsFrom(ids, q_idx) ==
    IF q_idx > Len(ids)
    THEN <<>>
    ELSE [i \in 1..Len(ids[q_idx]) |-> <<q_idx, i>>]
         \o PositionsFrom(ids, q_idx + 1)

\* variant: the sub-query result lists walked last to first
RECURSIVE PositionsDownFrom(_, _)
PositionsDownFrom(ids, q_idx) ==
    IF q_idx < 1
    THEN <<>>
    ELSE [i \in 1..Len(ids[q_idx]) |-> <<q_idx, i>>]
         \o PositionsDownFrom(ids, q_idx - 1)

PositionsReversed(ids) == PositionsDownFrom(ids, Len(ids))

\* for q_idx, query_ids in enumerate(results['ids']):
\*     for i, doc_id in enumerate(query_ids):
Positions(ids) == PositionsFrom(ids, 1)

\* variant: no seen_ids check
IsNewAlways(doc_id, seen_ids) == TRUE

\* if doc_id not in seen_ids:
IsNew(doc_id, seen_ids) == doc_id \notin seen_ids

\* the positions whose chunk is appended to all_chunks
RECURSIVE KeepFirst(_, _, _, _)
KeepFirst(ps, ids, seen_ids, kept) ==
    IF ps = <<>>
    THEN kept
    ELSE LET p == Head(ps)
             doc_id == ids[p[1]][p[2]]
         IN  IF IsNew(doc_id, seen_ids)
             THEN KeepFirst(Tail(ps), ids, seen_ids \cup {doc_id},
                            Append(kept, p))
             ELSE KeepFirst(Tail(ps), ids, seen_ids, kept)

\* all_chunks.append({'text': ..., 'metadata': ..., 'source_query': ...})
Chunk(results, queries, p) ==
    [text |-> Doc(p[1], p[2]),
     metadata |-> IF results.has_metadatas THEN Meta(p[1], p[2])
                  ELSE EmptyMeta,
     source_query |-> queries[p[1]]]

\* one call of the index per sub-query
IndexCallsPerQuery(queries, top_k) ==
    [i \in 1..Len(queries) |->
       [query_texts |-> <<queries[i]>>, n_results |-> top_k]]

\* results = self.vs.query(queries, n_results=top_k): the calls made
IndexCalls(queries, top_k) ==
    <<[query_texts |-> queries, n_results |-> top_k]>>

retrieve_with_decomposition(prov, user_question, out, results) ==
    LET d == decompose_query(prov, user_question, out)
        none == [kind |-> "raise", chunks |-> <<>>, ids |-> <<>>,
                 dq |-> d, calls |-> <<>>]
    IN  IF d.kind = "raise" THEN none
        ELSE IF d.value = <<>>
        THEN [none EXCEPT !.kind = "return"]
        ELSE LET calls == IndexCalls(d.value, TopK)
             IN  IF results.kind = "raise"
                 THEN [none EXCEPT !.calls = calls]
                 ELSE LET kept == KeepFirst(Positions(results.ids),
                                            results.ids, {}, <<>>)
                      IN  [kind |-> "return",
                           chunks |-> [k \in 1..Len(kept) |->
                                         Chunk(results, d.value, kept[k])],
                           ids |-> [k \in 1..Len(kept) |->
                                      results.ids[kept[k][1]][kept[k][2]]],
                           dq |-> d,
                           calls |-> calls]

----------------------------------------------------------------------------
(* Values of the variables before the call they belong to.                 *)

NoLLM == [kind |-> "nocall", lines |-> <<>>]
NoRet == [kind |-> "none", value |-> <<>>]
NoVs == [kind |-> "nocall", ids |-> <<>>, has_metadatas |-> FALSE]
NoExc == [at |-> "none", detail |-> ""]

RetrievalIdle ==
    /\ r_op = "idle"
    /\ llm_out = NoLLM
    /\ dq_ret = NoRet
    /\ vs_calls = <<>>
    /\ vs_out = NoVs
    /\ ret_kind = "none"
    /\ all_chunks = <<>>
    /\ chunk_ids = <<>>

GenerateIdle ==
    /\ pc = "idle"
    /\ use_mcp_tools = FALSE
    /\ tools_sent = FALSE
    /\ messages = <<>>
    /\ tool_calls = <<>>
    /\ tool_idx = 0
    /\ model_calls = 0
    /\ tool_log = <<>>
    /\ responses = <<>>
    /\ exc = NoExc
    /\ result = NoRet

NoCall == [called |-> FALSE, query |-> <<>>, max_depth |-> 0]
NoSubgraph == [nodes |-> <<>>, edges |-> <<>>]

\* a graph file that does not exist
NoFile == [exists |-> FALSE, header_row |-> <<>>, data_rows |-> <<>>,
           loaded |-> FALSE]

\* no graph file loaded (graph_utils.py:18-19) and no call made
GraphIdle ==
    /\ nodes = <<>>
    /\ edges = <<>>
    /\ adj_list = <<>>
    /\ g_call = NoCall
    /\ subgraph = NoSubgraph
    /\ graph_text = <<>>
    /\ graph_file = NoFile

\* an Optional[str]: None, or a str given as its characters
Absent == [given |-> FALSE, text |-> <<>>]
Given(s) == [given |-> TRUE, text |-> s]

\* the truth value Python gives an Optional[str]
Truthy(o) == o.given /\ o.text # <<>>

\* os.environ without a credential; no constructor call
NoEnv == [p \in {"openai", "anthropic", "gemini"} |-> Absent]
NoCtor == [called |-> FALSE, api_key |-> Absent, kind |-> "none",
           credential |-> Absent]

\* the constructor is not under study, the cache is empty, the API is up
EngineIdle ==
    /\ env = NoEnv
    /\ ctor = NoCtor
    /\ cache = <<>>
    /\ llm_up = TRUE

\* date_range=None
NoDateRange == "None"

\* a datetime: the proleptic Gregorian ordinal of its day and the seconds
\* elapsed in that day
NoDatetime == [ord |-> 0, secs |-> 0]

NoEventsCall ==
    [called |-> FALSE, date_range |-> NoDateRange, type_filter |-> Absent,
     start_date |-> Absent, end_date |-> Absent, query |-> Absent]

NoEventsRet == [kind |-> "none", order |-> <<>>, value |-> <<>>]

\* data/raw_events.json does not exist (tools.py:10-11), no call made
EventsIdle ==
    /\ events = <<>>
    /\ today = NoDatetime
    /\ e_call = NoEventsCall
    /\ e_kept = <<>>
    /\ e_ret = NoEventsRet

NoPeopleCall == [called |-> FALSE, query |-> <<>>, role_filter |-> Absent]

NoPeopleRet == [order |-> <<>>, value |-> <<>>]

\* data/people.json does not exist (tools.py:10-11), no call made
PeopleIdle ==
    /\ people = <<>>
    /\ p_call = NoPeopleCall
    /\ p_ret = NoPeopleRet

\* the LLM call of decompose_query happens only for a recognised provider
LLMCallOutcomes(prov, outs) ==
    IF prov \in KnownProviders THEN outs ELSE {NoLLM}

----------------------------------------------------------------------------
(* SpecRetrieval: one direct call of decompose_query or of                 *)
(* retrieve_with_decomposition on a constructed engine.                    *)

InitRetrieval ==
    /\ provider \in Providers
    /\ use_mcp = TRUE
    /\ question \in Questions
    /\ RetrievalIdle
    /\ GenerateIdle
    /\ EngineIdle
    /\ GraphIdle
    /\ EventsIdle
    /\ PeopleIdle

\* engine.decompose_query(question)
DecomposeQuery ==
    /\ r_op = "idle"
    /\ \E out \in LLMCallOutcomes(provider, LLMOutcomes(MaxReplyLines)) :
         /\ llm_out' = out
         /\ dq_ret' = decompose_query(provider, question, out)
    /\ r_op' = "decompose_query"
    /\ UNCHANGED <<tvars, provider, use_mcp, question, vs_calls, vs_out, ret_kind,
                   all_chunks, chunk_ids, gvars>>

\* the LLM replies tried under retrieval (the sub-query lists they give
\* have one to three entries, with and without a repeated text)
RetrievalReplies == {<<>>, <<"a">>, <<"a", "Q">>, <<"a", "a">>}

RetrievalLLMOutcomes ==
    {o \in LLMOutcomes(0) : o.kind # "text"}
    \cup {[kind |-> "text", lines |-> l] : l \in RetrievalReplies}

\* engine.retrieve_with_decomposition(question)
RetrieveWithDecomposition ==
    /\ r_op = "idle"
    /\ \E out \in LLMCallOutcomes(provider, RetrievalLLMOutcomes) :
         LET d == decompose_query(provider, question, out)
         IN  \E results \in VsOutcomes(Len(d.value)) :
               LET r == retrieve_with_decomposition(provider, question,
                                                    out, results)
               IN  /\ llm_out' = out
                   /\ dq_ret' = r.dq
                   /\ vs_calls' = r.calls
                   /\ vs_out' = IF r.calls = <<>> THEN NoVs ELSE results
                   /\ ret_kind' = r.kind
                   /\ all_chunks' = r.chunks
                   /\ chunk_ids' = r.ids
    /\ r_op' = "retrieve_with_decomposition"
    /\ UNCHANGED <<tvars, provider, use_mcp, question, gvars>>

NextRetrieval == DecomposeQuery \/ RetrieveWithDecomposition

SpecRetrieval == InitRetrieval /\ [][NextRetrieval]_vars

----------------------------------------------------------------------------
(* Claims about retrieval.                                                 *)

Retrieved == r_op = "retrieve_with_decomposition" /\ ret_kind = "return"

\* (q, i) comes before (q2, i2) in the walk over the result lists
Before(q, i, q2, i2) == q < q2 \/ (q = q2 /\ i < i2)

\* C1: the list returned by retrieve_with_decomposition holds no two chunks
\* that came from the same index id, whatever the index returned
C1_NoDuplicateIds ==
    Retrieved =>
        /\ Len(chunk_ids) = Len(all_chunks)
        /\ \A j, k \in 1..Len(all_chunks) :
             j # k =>
               /\ chunk_ids[j] # chunk_ids[k]
               /\ vs_out.ids[all_chunks[j].text[2]][all_chunks[j].text[3]]
                  # vs_out.ids[all_chunks[k].text[2]][all_chunks[k].text[3]]

\* a retrieval whose index results repeat an id and that returned chunks
C1_Witness ==
    /\ Retrieved
    /\ Len(all_chunks) >= 2
    /\ \E q, q2 \in 1..Len(vs_out.ids) :
         \E i \in 1..Len(vs_out.ids[q]), i2 \in 1..Len(vs_out.ids[q2]) :
           /\ <<q, i>> # <<q2, i2>>
           /\ vs_out.ids[q][i] = vs_out.ids[q2][i2]

\* C2: every id the index returned is kept exactly at its first occurrence
\* in the walk (earliest sub-query, then best rank): the chunk's text,
\* metadata and source_query are those of that position, and the output is
\* ordered by sub-query, then by rank
C2_FirstOccurrenceWins ==
    Retrieved =>
        LET ids == vs_out.ids
            queries == dq_ret.value
        IN  /\ \A k \in 1..Len(all_chunks) :
                 LET c == all_chunks[k]
                     q == c.text[2]
                     i == c.text[3]
                 IN  /\ q \in 1..Len(ids) /\ i \in 1..Len(ids[q])
                     /\ c.text = Doc(q, i)
                     /\ c.metadata = IF vs_out.has_metadatas THEN Meta(q, i)
                                     ELSE EmptyMeta
                     /\ c.source_query = queries[q]
                     /\ chunk_ids[k] = ids[q][i]
                     /\ \A q2 \in 1..Len(ids) : \A i2 \in 1..Len(ids[q2]) :
                          Before(q2, i2, q, i) => ids[q2][i2] # ids[q][i]
            /\ \A q \in 1..Len(ids) : \A i \in 1..Len(ids[q]) :
                 ids[q][i] \in Range(chunk_ids)
            /\ \A j, k \in 1..Len(all_chunks) :
                 j < k => Before(all_chunks[j].text[2], all_chunks[j].text[3],
                                 all_chunks[k].text[2], all_chunks[k].text[3])

\* an id returned for two different sub-queries, the later of which also
\* contributes a chunk of its own
C2_Witness ==
    /\ Retrieved
    /\ \E q, q2 \in 1..Len(vs_out.ids) :
         /\ q < q2
         /\ Range(vs_out.ids[q]) \cap Range(vs_out.ids[q2]) # {}
         /\ \E k \in 1..Len(all_chunks) : all_chunks[k].text[2] = q2

\* C3: decompose_query returns between 1 and 4 sub-queries, the original
\* question among them, for every question and every LLM reply
C3_OriginalIncluded ==
    r_op = "decompose_query" =>
        /\ dq_ret.kind = "return"
        /\ Len(dq_ret.value) \in 1..MaxQueries
        /\ question \in Range(dq_ret.value)

\* C4: when the LLM call of decompose_query raises, decompose_query returns
\* exactly [question] without raising, and retrieve_with_decomposition still
\* queries the vector index, once, with that single sub-query
C4_FallbackOnLLMFailure ==
    (r_op # "idle" /\ llm_out.kind = "raise") =>
        /\ dq_ret = [kind |-> "return", value |-> <<question>>]
        /\ r_op = "retrieve_with_decomposition" =>
             vs_calls = <<[query_texts |-> <<question>>, n_results |-> TopK]>>

\* a retrieval whose decomposition LLM call raised and that returned chunks
C4_Witness ==
    /\ Retrieved
    /\ llm_out.kind = "raise"
    /\ Len(all_chunks) >= 1

\* C24: retrieve_with_decomposition calls the vector-index query exactly
\* once per invocation, with the whole list of sub-queries in decomposition
\* order and n_results equal to top_k, never once per sub-query
C24_OneBatchedIndexCall ==
    r_op = "retrieve_with_decomposition" =>
      /\ Len(vs_calls) = 1
      /\ vs_calls[1].query_texts = dq_ret.value
      /\ vs_calls[1].n_results = TopK
      /\ vs_out.kind # "nocall"

\* a retrieval whose decomposition gave three sub-queries and whose one
\* index call returned
C24_Witness ==
    /\ r_op = "retrieve_with_decomposition"
    /\ Len(dq_ret.value) = 3
    /\ Len(vs_calls) = 1
    /\ ret_kind = "return"

----------------------------------------------------------------------------
(* MCPServer                                                               *)

\* self.tools
ToolNames == {"search_people", "search_research", "get_events", "search_graph"}

\* the function names a model response may request
RequestedNames == {"get_events", "search_graph", "unknown_tool"}

\* the argument strings a tool call may carry: text that is not JSON, a
\* JSON object of accepted keyword arguments, and a JSON object with an
\* unexpected keyword
ArgumentStrings == {"{malformed", "{valid}", "{unexpected}"}

\* json.loads(tool_call.function.arguments)
Loads(text) ==
    IF text = "{malformed"
    THEN [kind |-> "raise", value |-> "JSONDecodeError"]
    ELSE [kind |-> "return", value |-> text]

\* json.dumps(result)
Dumps(value) == [json |-> value]

\* outcomes of running a tool function on well-formed keyword arguments
ToolOutcomes == {"return", "raise"}

\* whether tool_func(**arguments) raises, and with what message
ToolException(arguments, fn_out) ==
    IF arguments = "{unexpected}" THEN "TypeError: unexpected keyword argument"
    ELSE IF fn_out = "raise" THEN "tool function failed"
    ELSE ""

\* variant: the tool function is called outside the try
ToolErrorPropagates(detail) == [kind |-> "raise", value |-> detail]

\* except Exception as e: return {"error": str(e)}
ToolError(detail) ==
    [kind |-> "return", value |-> [key |-> "error", val |-> detail]]

\* raise ValueError(f"Tool {name} not found")
ToolNotFound(name) ==
    [kind |-> "raise", value |-> "Tool " \o name \o " not found"]

call_tool(name, arguments, fn_out) ==
    IF name \notin ToolNames
    THEN ToolNotFound(name)
    ELSE IF ToolException(arguments, fn_out) # ""
    THEN ToolError(ToolException(arguments, fn_out))
    ELSE [kind |-> "return", value |-> [key |-> "data", val |-> name]]

----------------------------------------------------------------------------
(* Text.  A Python str is modelled as the sequence of its characters, so   *)
(* that lower(), split() and the substring test `in` are computed.         *)

\* str.lower() on one character
LowerChar(c) ==
    CASE c = "A" -> "a"
      [] c = "B" -> "b"
      [] c = "D" -> "d"
      [] c = "E" -> "e"
      [] c = "G" -> "g"
      [] c = "L" -> "l"
      [] c = "O" -> "o"
      [] c = "P" -> "p"
      [] c = "Q" -> "q"
      [] c = "R" -> "r"
      [] c = "X" -> "x"
      [] OTHER -> c

\* str.lower()
Lower(s) == [i \in 1..Len(s) |-> LowerChar(s[i])]

\* sub in s
Contains(sub, s) ==
    \E i \in 1..(Len(s) - Len(sub) + 1) : SubSeq(s, i, i + Len(sub) - 1) = sub

\* str.split(): the maximal runs of non-whitespace characters, in order
RECURSIVE SplitFrom(_, _, _, _)
SplitFrom(s, i, word, acc) ==
    IF i > Len(s)
    THEN IF word = <<>> THEN acc ELSE Append(acc, word)
    ELSE IF s[i] = " "
         THEN SplitFrom(s, i + 1, <<>>,
                        IF word = <<>> THEN acc ELSE Append(acc, word))
         ELSE SplitFrom(s, i + 1, Append(word, s[i]), acc)

Split(s) == SplitFrom(s, 1, <<>>, <<>>)

----------------------------------------------------------------------------
(* GraphUtils (src/src/core/graph_utils.py).                               *)

\* most rows of the Edges table
MaxEdges == 2
\* largest max_depth passed to get_subgraph
MaxDepth == 2

\* the rows of the Nodes table
GraphNodes ==
    << [id |-> <<"a">>, name |-> <<"A", "l">>, type |-> <<"x">>],
       [id |-> <<"b">>, name |-> <<"B", "e">>, type |-> <<"x">>],
       [id |-> <<"c">>, name |-> <<"G", "a">>, type |-> <<"y">>],
       [id |-> <<"d">>, name |-> <<"D", "e">>, type |-> <<"y">>] >>

Edge(s, t) == [source |-> s, target |-> t]

\* the rows an Edges table is made of: edges between loaded nodes, an
\* edge naming the id "z" of no loaded node, and a partial row whose
\* source cell is empty
EdgeRows ==
    { Edge(<<"a">>, <<"b">>), Edge(<<"b">>, <<"c">>), Edge(<<"c">>, <<"d">>),
      Edge(<<"a">>, <<"z">>), Edge(<<>>, <<"a">>) }

\* the query strings passed to get_subgraph
GraphQueries ==
    { <<>>,
      <<"A", "L">>,
      <<"x">>,
      <<"z">>,
      <<" ", "G", "a", " ">>,
      <<"a", "l", " ", "d", "e">> }

\* self.adj_list[k].append(v) on a defaultdict(list)
AdjAppend(adj, k, v) ==
    IF k \in DOMAIN adj
    THEN [adj EXCEPT ![k] = Append(@, v)]
    ELSE [x \in DOMAIN adj \cup {k} |-> IF x = k THEN <<v>> ELSE adj[x]]

\* the loop of _build_adjacency_list from edge i on
RECURSIVE BuildFrom(_, _, _)
BuildFrom(es, i, adj) ==
    IF i > Len(es) THEN adj
    ELSE LET source == es[i].source
             target == es[i].target
         IN  IF source # <<>> /\ target # <<>>
             THEN BuildFrom(es, i + 1,
                            AdjAppend(AdjAppend(adj, source, target),
                                      target, source))
             ELSE BuildFrom(es, i + 1, adj)

_build_adjacency_list(es) == BuildFrom(es, 1, <<>>)

\* a searchable text that leaves the type out
searchable_text_without_type(node) ==
    Lower(node.id \o <<" ">> \o node.name)

\* f"{id} {name} {type}".lower()
searchable_text(node) ==
    Lower(node.id \o <<" ">> \o node.name \o <<" ">> \o node.type)

\* any(term in searchable_text for term in query_lower.split())
MatchesQuery(node, query) ==
    LET terms == Split(Lower(query))
    IN  \E k \in 1..Len(terms) : Contains(terms[k], searchable_text(node))

\* step 1 of get_subgraph: the ids of the directly matching nodes
DirectMatches(ns, query) ==
    {ns[i].id : i \in {j \in 1..Len(ns) : MatchesQuery(ns[j], query)}}

\* a loop that reads self.adj_list[node_id] for every node of the layer
KeyInAlways(adj, node_id) == TRUE

\* if node_id in self.adj_list: the membership test on a defaultdict
\* inserts nothing
KeyIn(adj, node_id) == node_id \in DOMAIN adj

\* the `for _ in range(max_depth)` loop of get_subgraph: the relevant ids it
\* ends with, and adj_list after it.  self.adj_list[node_id] on a
\* defaultdict(list) gives the list of a key that is present and inserts an
\* empty list under a key that is not
RECURSIVE Expand(_, _, _, _)
Expand(adj, current_layer, relevant_nodes, depth) ==
    IF depth <= 0 THEN [relevant |-> relevant_nodes, adj |-> adj]
    ELSE LET read == {n \in current_layer : KeyIn(adj, n)}
             after == [k \in DOMAIN adj \cup read |->
                         IF k \in DOMAIN adj THEN adj[k] ELSE <<>>]
             next_layer == UNION {Range(after[n]) : n \in read}
         IN  Expand(after, next_layer, relevant_nodes \cup next_layer,
                    depth - 1)

\* GraphUtils.get_subgraph(query, max_depth): the dict it returns
get_subgraph(ns, es, adj, query, max_depth) ==
    LET matched == DirectMatches(ns, query)
        relevant_nodes == Expand(adj, matched, matched, max_depth).relevant
        NodeIn(n) == n.id \in relevant_nodes
        EdgeIn(e) == e.source \in relevant_nodes /\ e.target \in relevant_nodes
    IN  [nodes |-> SelectSeq(ns, NodeIn), edges |-> SelectSeq(es, EdgeIn)]

\* one line of a text: what kind of line it is and the two names it carries
Line(kind, a, b) == [kind |-> kind, a |-> a, b |-> b]

\* lines 114-144 of to_natural_language: the heading, one line per node,
\* and when there are edges a second heading and one line per edge, which
\* names an end by node_map.get(id, id); a text is the sequence of the
\* lines "\n".join puts together
Describe(sub) ==
    LET Named(id) == {i \in 1..Len(sub.nodes) : sub.nodes[i].id = id}
        NodeName(id) ==
            IF Named(id) = {} THEN id
            ELSE sub.nodes[CHOOSE i \in Named(id) :
                             \A j \in Named(id) : j <= i].name
    IN  <<Line("Institutional Context:", <<>>, <<>>)>>
        \o [i \in 1..Len(sub.nodes) |->
              Line("entity", sub.nodes[i].name, sub.nodes[i].type)]
        \o (IF sub.edges = <<>> THEN <<>>
            ELSE <<Line("Relationships:", <<>>, <<>>)>>
                 \o [k \in 1..Len(sub.edges) |->
                       Line("related to", NodeName(sub.edges[k].source),
                            NodeName(sub.edges[k].target))])

\* a linearization without the early return
to_natural_language_no_early_return(sub) == Describe(sub)

\* GraphUtils.to_natural_language(subgraph): "" for a subgraph of no nodes
to_natural_language(sub) ==
    IF sub.nodes = <<>> THEN <<>> ELSE Describe(sub)

\* max_depth when get_subgraph is called with the query alone
DefaultDepth == 1

\* the text search_graph gives for an empty subgraph
NoRelationshipsFound ==
    <<Line("No institutional relationships found", <<>>, <<>>)>>

\* search_graph(query): to_natural_language(get_subgraph(query)), or the
\* fixed text when that is empty
search_graph(ns, es, adj, query) ==
    LET text == to_natural_language(get_subgraph(ns, es, adj, query,
                                                 DefaultDepth))
    IN  IF text = <<>> THEN NoRelationshipsFound ELSE text

----------------------------------------------------------------------------
(* generate_response                                                       *)

Str(t) == [type |-> "str", prefix |-> "", text |-> t]
None == [type |-> "NoneType", prefix |-> "", text |-> ""]

\* the text a chat-model response carries: message.content and
\* response.text are optional
Contents == {Str("answer"), None}

\* the id the API gives the k-th tool call of a response
CallId(k) == 100 + k

\* the tool-call lists a response may carry
ToolCallLists ==
    UNION {{[k \in 1..n |-> [id |-> CallId(k), name |-> f[k][1],
                             arguments |-> f[k][2]]] :
              f \in [1..n -> RequestedNames \X ArgumentStrings]} :
           n \in 0..MaxToolCalls}

\* variant: the exception is raised again instead of returned
HandlerPropagates(at, detail) ==
    [exc |-> [at |-> at, detail |-> detail],
     result |-> [kind |-> "raise", value |-> Str(detail)]]

\* except Exception as e: return f"Error: {e}"
Handler(at, detail) ==
    [exc |-> [at |-> at, detail |-> detail],
     result |-> [kind |-> "return",
                 value |-> [type |-> "str", prefix |-> "Error: ",
                            text |-> detail]]]

Message(role, content) ==
    [role |-> role, content |-> content, tool_call_id |-> 0,
     tool_calls |-> <<>>]

\* variant: every tool message keyed to the first request
ToolMessageFirstId(tool_call, value) ==
    [role |-> "tool", content |-> Dumps(value),
     tool_call_id |-> CallId(1), tool_calls |-> <<>>]

\* messages.append({"role": "tool", "tool_call_id": tool_call.id,
\*                  "content": json.dumps(result)})
ToolMessage(tool_call, value) ==
    [role |-> "tool", content |-> Dumps(value),
     tool_call_id |-> tool_call.id, tool_calls |-> <<>>]

\* variant: the tool-call branch is never taken
NeverToolCalls(message) == FALSE

\* if message.tool_calls:
HasToolCalls(message) == message.tool_calls # <<>>

\* tools is non-empty: only the gemini and openai branches fill it
ToolsPrepared(prov, mcp, requested) ==
    requested /\ mcp /\ prov \in {"gemini", "openai"}

\* the retrieval inputs tried under generate_response
GenerateLLMOutcomes ==
    {[kind |-> "raise", lines |-> <<>>], [kind |-> "text", lines |-> <<"a">>]}

GenerateVsOutcomes(n) ==
    {o \in VsOutcomes(n) :
       \/ o.kind = "raise"
       \/ /\ o.has_metadatas
          /\ \A q \in 1..n : o.ids[q] \in {<<>>, <<1>>}}

\* what the metadata map of a chunk holds: the chunk of the first sub-query
\* has every field, with a description of two characters and an abstract of
\* 51; the chunk of the second has neither title nor url, an empty role and
\* a description of 51 characters; {} has nothing
MetadataOf(meta) ==
    CASE meta = Meta(1, 1) ->
           [title |-> Given(<<"T">>), url |-> Given(<<"U">>),
            meta_role |-> Given(<<"r">>),
            meta_description |-> Given(<<"d", "d">>),
            meta_abstract |-> Given([i \in 1..51 |-> "a"])]
      [] meta = Meta(2, 1) ->
           [title |-> Absent, url |-> Absent,
            meta_role |-> Given(<<>>),
            meta_description |-> Given([i \in 1..51 |-> "d"]),
            meta_abstract |-> Absent]
      [] OTHER ->
           [title |-> Absent, url |-> Absent, meta_role |-> Absent,
            meta_description |-> Absent, meta_abstract |-> Absent]

\* lines 140-164: the formatted entry of one chunk, as the lines it is
\* made of
FormatEntry(chunk) ==
    LET meta == MetadataOf(chunk.metadata)
        Get(o, default) == IF o.given THEN o.text ELSE default
        description == Get(meta.meta_description, <<>>)
        abstract == Get(meta.meta_abstract, <<>>)
        role == Get(meta.meta_role, <<>>)
    IN  <<Line("Title", Get(meta.title, <<"Untitled">>), <<>>),
          Line("Source URL", Get(meta.url, <<"No URL available">>), <<>>)>>
        \o (IF role # <<>> THEN <<Line("Role", role, <<>>)>> ELSE <<>>)
        \o <<Line("Content", chunk.text, <<>>)>>
        \o (IF description # <<>> /\ Len(description) > LongText
            THEN <<Line("Description", description, <<>>)>> ELSE <<>>)
        \o (IF abstract # <<>> /\ Len(abstract) > LongText
            THEN <<Line("Abstract", abstract, <<>>)>> ELSE <<>>)

\* lines 166-191, 226-229: the sections of final_system_instruction that
\* depend on the call: the graph context (the text of the subgraph, or a
\* fixed sentence when that is empty), the website context (the formatted
\* entries, joined by the separator) and whether the tool catalog with its
\* standing permission is there
system_instruction(context_chunks, graph_data, catalog) ==
    LET graph_context_text == to_natural_language(graph_data)
    IN  [graph |-> IF graph_context_text = <<>>
                   THEN <<Line("No specific institutional relationships found.",
                               <<>>, <<>>)>>
                   ELSE graph_context_text,
         context |-> [k \in 1..Len(context_chunks) |->
                        FormatEntry(context_chunks[k])],
         catalog |-> catalog]

----------------------------------------------------------------------------
(* Spec: one generate_response call on a constructed engine, whose graph   *)
(* file is missing or holds one node that the question matches.            *)

Init ==
    /\ provider \in Providers
    /\ use_mcp \in BOOLEAN
    /\ question = "Q"
    /\ RetrievalIdle
    /\ GenerateIdle
    /\ EngineIdle
    /\ nodes \in {<<>>, <<[id |-> <<"q">>, name |-> <<"Q", "a">>,
                           type |-> <<"x">>]>>}
    /\ edges = <<>>
    /\ adj_list = <<>>
    /\ g_call = NoCall
    /\ subgraph = NoSubgraph
    /\ graph_text = <<>>
    /\ graph_file = NoFile
    /\ EventsIdle
    /\ PeopleIdle

Finish(h) ==
    /\ pc' = "done"
    /\ exc' = h.exc
    /\ result' = h.result

Return(value) ==
    /\ pc' = "done"
    /\ result' = [kind |-> "return", value |-> value]
    /\ UNCHANGED exc

\* lines 133-229: retrieval, context formatting, graph context, system
\* instruction, tool preparation; everything before the try block
Prepare ==
    /\ pc = "idle"
    /\ \E requested \in BOOLEAN :
       \E out \in LLMCallOutcomes(provider, GenerateLLMOutcomes) :
         LET d == decompose_query(provider, question, out)
         IN  \E results \in GenerateVsOutcomes(Len(d.value)) :
               LET r == retrieve_with_decomposition(provider, question,
                                                    out, results)
                   catalog == requested /\ use_mcp
                   \* the question is one character long
                   query == <<question>>
                   matched == DirectMatches(nodes, query)
                   graph_data == get_subgraph(nodes, edges, adj_list, query,
                                              DefaultDepth)
               IN  /\ use_mcp_tools' = requested
                   /\ r_op' = "retrieve_with_decomposition"
                   /\ llm_out' = out
                   /\ dq_ret' = r.dq
                   /\ vs_calls' = r.calls
                   /\ vs_out' = IF r.calls = <<>> THEN NoVs ELSE results
                   /\ ret_kind' = r.kind
                   /\ all_chunks' = r.chunks
                   /\ chunk_ids' = r.ids
                   /\ IF r.kind = "raise"
                      \* the exception of vs.query leaves generate_response
                      THEN /\ pc' = "done"
                           /\ result' = [kind |-> "raise",
                                         value |-> Str("vs.query failed")]
                           /\ UNCHANGED <<tools_sent, messages, g_call,
                                          subgraph, adj_list>>
                      ELSE /\ pc' = "try"
                           /\ g_call' = [called |-> TRUE, query |-> query,
                                         max_depth |-> DefaultDepth]
                           /\ subgraph' = graph_data
                           /\ adj_list' = Expand(adj_list, matched, matched,
                                                 DefaultDepth).adj
                           /\ tools_sent' =
                                ToolsPrepared(provider, use_mcp, requested)
                           /\ messages' =
                                <<Message("system",
                                          system_instruction(r.chunks,
                                                             graph_data,
                                                             catalog)),
                                  Message("user", question)>>
                           /\ UNCHANGED result
    /\ UNCHANGED <<provider, use_mcp, question, tool_calls, tool_idx,
                   model_calls, tool_log, responses, exc,
                   nodes, edges, graph_text, graph_file, env, ctor, cache,
                   llm_up, events, today, e_call, e_kept, e_ret,
                   people, p_call, p_ret>>

\* the responses the first chat-completion call may give: tool calls only
\* when the call carried tool definitions
FirstResponses ==
    {[content |-> c, tool_calls |-> t] :
       c \in Contents,
       t \in IF tools_sent THEN ToolCallLists ELSE {<<>>}}

\* lines 231-253, 275-276: the first OpenAI call and the branch on it
OpenAIFirstCall ==
    /\ pc = "try"
    /\ provider = "openai"
    /\ model_calls' = model_calls + 1
    /\ \/ /\ Finish(Handler("model_call_1", "APIError"))
          /\ UNCHANGED <<messages, tool_calls, tool_idx, responses>>
       \/ \E message \in FirstResponses :
            /\ responses' = Append(responses, message)
            /\ IF HasToolCalls(message)
               THEN /\ messages' =
                         Append(messages,
                                [role |-> "assistant",
                                 content |-> message.content,
                                 tool_call_id |-> 0,
                                 tool_calls |-> message.tool_calls])
                    /\ tool_calls' = message.tool_calls
                    /\ tool_idx' = 1
                    /\ pc' = "tools"
                    /\ UNCHANGED <<exc, result>>
               ELSE /\ Return(message.content)
                    /\ UNCHANGED <<messages, tool_calls, tool_idx>>
    /\ UNCHANGED <<tvars, provider, use_mcp, rvars, use_mcp_tools, tools_sent,
                   tool_log>>

\* lines 255-266: one iteration of the loop over message.tool_calls
ExecuteTool ==
    /\ pc = "tools"
    /\ tool_idx <= Len(tool_calls)
    /\ LET tool_call == tool_calls[tool_idx]
           arguments == Loads(tool_call.arguments)
       IN  IF arguments.kind = "raise"
           THEN /\ Finish(Handler("json.loads", arguments.value))
                /\ UNCHANGED <<messages, tool_idx, tool_log>>
           ELSE \E fn_out \in ToolOutcomes :
                  LET r == call_tool(tool_call.name, arguments.value, fn_out)
                  IN  /\ tool_log' =
                           Append(tool_log,
                                  [name |-> tool_call.name,
                                   arguments |-> arguments.value,
                                   fn_out |-> fn_out,
                                   ret |-> r])
                      /\ IF r.kind = "raise"
                         THEN /\ Finish(Handler("call_tool", r.value))
                              /\ UNCHANGED <<messages, tool_idx>>
                         ELSE /\ messages' =
                                   Append(messages,
                                          ToolMessage(tool_call, r.value))
                              /\ tool_idx' = tool_idx + 1
                              /\ pc' = IF tool_idx = Len(tool_calls)
                                       THEN "second" ELSE "tools"
                              /\ UNCHANGED <<exc, result>>
    /\ UNCHANGED <<tvars, provider, use_mcp, rvars, use_mcp_tools, tools_sent,
                   tool_calls, model_calls, responses>>

\* the responses the second chat-completion call may give
SecondResponses ==
    {[content |-> c, tool_calls |-> t] :
       c \in Contents,
       t \in {<<>>, <<[id |-> CallId(MaxToolCalls + 1),
                       name |-> "get_events", arguments |-> "{valid}"]>>}}

\* lines 268-274: the second OpenAI call, whose content is returned
OpenAISecondCall ==
    /\ pc = "second"
    /\ model_calls' = model_calls + 1
    /\ \/ /\ Finish(Handler("model_call_2", "APIError"))
          /\ UNCHANGED responses
       \/ \E response \in SecondResponses :
            /\ responses' = Append(responses, response)
            /\ Return(response.content)
    /\ UNCHANGED <<tvars, provider, use_mcp, rvars, use_mcp_tools, tools_sent,
                   messages, tool_calls, tool_idx, tool_log>>

\* lines 278-287: response.content[0].text, a string, unless the call
\* raises or content is an empty list (IndexError)
AnthropicCall ==
    /\ pc = "try"
    /\ provider = "anthropic"
    /\ model_calls' = model_calls + 1
    /\ \/ /\ Finish(Handler("model_call_1", "APIError"))
          /\ UNCHANGED responses
       \/ /\ Finish(Handler("model_call_1", "IndexError"))
          /\ responses' = Append(responses,
                                 [content |-> None, tool_calls |-> <<>>])
       \/ /\ responses' = Append(responses, [content |-> Str("answer"),
                                             tool_calls |-> <<>>])
          /\ Return(Str("answer"))
    /\ UNCHANGED <<tvars, provider, use_mcp, rvars, use_mcp_tools, tools_sent,
                   messages, tool_calls, tool_idx, tool_log>>

\* lines 289-321: chat.send_message(query); response.text is optional
GeminiCall ==
    /\ pc = "try"
    /\ provider = "gemini"
    /\ model_calls' = model_calls + 1
    /\ \/ /\ Finish(Handler("model_call_1", "APIError"))
          /\ UNCHANGED responses
       \/ \E text \in Contents :
            /\ responses' = Append(responses,
                                   [content |-> text, tool_calls |-> <<>>])
            /\ Return(text)
    /\ UNCHANGED <<tvars, provider, use_mcp, rvars, use_mcp_tools, tools_sent,
                   messages, tool_calls, tool_idx, tool_log>>

\* no branch of the if/elif chain matches: the method ends without a
\* return statement
UnknownProvider ==
    /\ pc = "try"
    /\ provider \notin KnownProviders
    /\ Return(None)
    /\ UNCHANGED <<tvars, provider, use_mcp, rvars, use_mcp_tools, tools_sent,
                   messages, tool_calls, tool_idx, model_calls, tool_log,
                   responses>>

Next ==
    \/ Prepare
    \/ OpenAIFirstCall
    \/ ExecuteTool
    \/ OpenAISecondCall
    \/ AnthropicCall
    \/ GeminiCall
    \/ UnknownProvider

Spec == Init /\ [][Next]_vars

----------------------------------------------------------------------------
(* Claims about generate_response and call_tool.                           *)

ErrorString(detail) ==
    [kind |-> "return",
     value |-> [type |-> "str", prefix |-> "Error: ", text |-> detail]]

\* the first response of the OpenAI path was received
FirstResponseSeen == provider = "openai" /\ Len(responses) >= 1

\* the tool call at tool_idx could not be parsed
MalformedAtIndex ==
    /\ tool_idx \in 1..Len(tool_calls)
    /\ Len(tool_log) = tool_idx - 1
    /\ Loads(tool_calls[tool_idx].arguments).kind = "raise"

\* C5: generate_response returns a text string in every case: it never
\* returns a non-string value and no exception reaches the caller
C5_AlwaysReturnsString ==
    pc = "done" => (result.kind = "return" /\ result.value.type = "str")

\* C6: an exception raised by a model call, by json.loads on the tool-call
\* arguments or by call_tool is caught and returned as "Error: <detail>";
\* once inside the try block nothing propagates
C6_ExceptionsBecomeErrorStrings ==
    /\ exc.at # "none" => (pc = "done" /\ result = ErrorString(exc.detail))
    /\ (pc = "done" /\ model_calls > Len(responses)) =>
          result = ErrorString("APIError")
    /\ (pc = "done" /\ MalformedAtIndex) =>
          result = ErrorString("JSONDecodeError")
    /\ \A k \in 1..Len(tool_log) :
         tool_log[k].ret.kind = "raise" =>
           (pc = "done" /\ result = ErrorString(tool_log[k].ret.value))
    /\ result.kind = "raise" => (ret_kind = "raise" /\ model_calls = 0)

\* a call that ended on malformed tool-call arguments after an executed tool
C6_Witness ==
    /\ pc = "done"
    /\ exc.at = "json.loads"
    /\ Len(tool_log) >= 1
    /\ result = ErrorString("JSONDecodeError")

\* C7 as stated: one model call when the first response has no tool call
\* (its text is returned), exactly two when it has
C7_OnceOrExactlyTwice ==
    (pc = "done" /\ FirstResponseSeen) =>
        IF responses[1].tool_calls = <<>>
        THEN model_calls = 1
             /\ result = [kind |-> "return", value |-> responses[1].content]
        ELSE model_calls = 2

\* C7 as amended: at most two model calls; one when the first response has
\* no tool call (its text is returned); when it has, two unless executing a
\* requested tool raises (then one, and an "Error: ..." string is returned);
\* the second response is returned as final and its tool calls are never
\* executed
C7_AtMostOneRoundTrip ==
    /\ model_calls <= 2
    /\ Len(tool_log) <= Len(tool_calls)
    /\ FirstResponseSeen =>
         \/ tool_calls = <<>> /\ pc = "done"
         \/ tool_calls = responses[1].tool_calls
    /\ (pc = "done" /\ FirstResponseSeen) =>
         IF responses[1].tool_calls = <<>>
         THEN model_calls = 1
              /\ result = [kind |-> "return", value |-> responses[1].content]
         ELSE IF MalformedAtIndex
                 \/ \E k \in 1..Len(tool_log) : tool_log[k].ret.kind = "raise"
         THEN model_calls = 1
              /\ result.kind = "return"
              /\ result.value.prefix = "Error: "
         ELSE /\ model_calls = 2
              /\ Len(tool_log) = Len(responses[1].tool_calls)
              /\ IF Len(responses) = 2
                 THEN result = [kind |-> "return",
                                value |-> responses[2].content]
                 ELSE result = ErrorString("APIError")

\* a finished call whose second response asked for another tool call
C7_Witness ==
    /\ pc = "done"
    /\ FirstResponseSeen
    /\ Len(responses) = 2
    /\ responses[2].tool_calls # <<>>
    /\ model_calls = 2

\* C8 as stated: every tool call of the first response is executed
\* exactly once through call_tool, in request order, each with its tool
\* message, before the second model call
C8_EveryCallExecuted ==
    (pc \in {"second", "done"} /\ tool_calls # <<>>) =>
        /\ Len(tool_log) = Len(tool_calls)
        /\ \A k \in 1..Len(tool_calls) :
             /\ tool_log[k].name = tool_calls[k].name
             /\ Len(messages) >= 3 + k
             /\ messages[3 + k].tool_call_id = tool_calls[k].id

\* C8 as amended: the requested calls are executed through call_tool in
\* request order, each at most once, up to the first one whose arguments do
\* not parse or whose call_tool raises; each result that call_tool returns
\* is appended as a tool message carrying the id of its own request, after
\* the assistant message; the second model call is issued only when every
\* requested call was executed and every tool message appended
C8_ToolCallsInOrder ==
    tool_calls # <<>> =>
        LET n == Len(tool_calls)
            m == Len(tool_log)
        IN  /\ m <= n
            /\ \A k \in 1..m :
                 /\ tool_log[k].name = tool_calls[k].name
                 /\ tool_log[k].arguments = Loads(tool_calls[k].arguments).value
                 /\ tool_log[k].ret.kind = "raise" => (k = m /\ pc = "done")
            /\ Len(messages) >= 3
            /\ messages[3].role = "assistant"
            /\ messages[3].tool_calls = tool_calls
            /\ \A j \in 1..Len(messages) :
                 IF j <= 3
                 THEN messages[j].role # "tool"
                 ELSE /\ messages[j].role = "tool"
                      /\ j - 3 <= m
                      /\ tool_log[j - 3].ret.kind = "return"
                      /\ messages[j].tool_call_id = tool_calls[j - 3].id
                      /\ messages[j].content = Dumps(tool_log[j - 3].ret.value)
            /\ Len(messages) - 3 =
                 Cardinality({k \in 1..m : tool_log[k].ret.kind = "return"})
            /\ (pc = "second" \/ model_calls = 2) =>
                 (m = n /\ Len(messages) = 3 + n)
            /\ (pc = "done" /\ m < n) =>
                 (model_calls = 1 /\ exc.at \in {"json.loads", "call_tool"})

\* a second model call after two executed tool calls
C8_Witness ==
    /\ model_calls = 2
    /\ Len(tool_calls) >= 2
    /\ Len(tool_log) = Len(tool_calls)

\* C9: call_tool with a name that is not registered returns an error
\* result and does not raise
C9_UnknownToolIsErrorResult ==
    \A k \in 1..Len(tool_log) :
      tool_log[k].name \notin ToolNames =>
        /\ tool_log[k].ret.kind = "return"
        /\ tool_log[k].ret.value.key = "error"

\* C10: for a registered tool call_tool never raises; an exception of the
\* tool function, a rejected keyword argument included, comes back as
\* {error: str(exception)}
C10_RegisteredToolNeverRaises ==
    \A k \in 1..Len(tool_log) :
      tool_log[k].name \in ToolNames =>
        /\ tool_log[k].ret.kind = "return"
        /\ (tool_log[k].fn_out = "raise"
            \/ tool_log[k].arguments = "{unexpected}") =>
              /\ tool_log[k].ret.value.key = "error"
              /\ tool_log[k].ret.value.val # ""
              /\ tool_log[k].ret.value.val =
                   ToolException(tool_log[k].arguments, tool_log[k].fn_out)
        /\ (tool_log[k].fn_out = "return"
            /\ tool_log[k].arguments = "{valid}") =>
              tool_log[k].ret.value.key = "data"

\* a registered tool that raised inside and one that rejected its keywords
C10_Witness ==
    /\ \E k \in 1..Len(tool_log) :
         /\ tool_log[k].name \in ToolNames
         /\ tool_log[k].fn_out = "raise"
         /\ tool_log[k].arguments = "{valid}"
    /\ \E k \in 1..Len(tool_log) :
         /\ tool_log[k].name \in ToolNames
         /\ tool_log[k].arguments = "{unexpected}"

----------------------------------------------------------------------------
(* Claims about failed tool calls inside generate_response.                *)

\* the k-th executed tool call failed: its name is not registered, or the
\* tool function raised
ToolCallFailed(k) ==
    \/ tool_log[k].name \notin ToolNames
    \/ ToolException(tool_log[k].arguments, tool_log[k].fn_out) # ""

\* every requested tool call carries arguments that parse
AllArgumentsParse ==
    \A k \in 1..Len(tool_calls) :
      Loads(tool_calls[k].arguments).kind = "return"

\* C11: a failed tool call (unknown tool name, or an exception inside the
\* tool) does not abort the turn: the failure is appended as an {error: ...}
\* tool message and the second model call is made, whose text is returned
C11_FailedToolDoesNotAbort ==
    /\ \A k \in 1..Len(tool_log) :
         ToolCallFailed(k) =>
           /\ tool_log[k].ret.kind = "return"
           /\ tool_log[k].ret.value.key = "error"
           /\ Len(messages) >= 3 + k
           /\ messages[3 + k].role = "tool"
           /\ messages[3 + k].content = Dumps(tool_log[k].ret.value)
    /\ (pc = "done" /\ tool_calls # <<>> /\ AllArgumentsParse) =>
         /\ model_calls = 2
         /\ Len(responses) = 2 =>
              result = [kind |-> "return", value |-> responses[2].content]

----------------------------------------------------------------------------
(* SpecGraph: a GraphUtils object built from a graph file, then any        *)
(* sequence of get_subgraph and search_graph calls on it.                  *)

\* after __init__: the tables are parsed and the adjacency list is built
InitGraph ==
    /\ provider = "openai"
    /\ use_mcp = TRUE
    /\ question = "Q"
    /\ RetrievalIdle
    /\ GenerateIdle
    /\ EngineIdle
    /\ nodes = GraphNodes
    /\ edges \in SeqsUpTo(EdgeRows, MaxEdges)
    /\ adj_list = _build_adjacency_list(edges)
    /\ g_call = NoCall
    /\ subgraph = NoSubgraph
    /\ graph_text = <<>>
    /\ graph_file = NoFile
    /\ EventsIdle
    /\ PeopleIdle

\* graph.get_subgraph(query, max_depth)
GetSubgraph ==
    /\ \E query \in GraphQueries, max_depth \in 0..MaxDepth :
         LET matched == DirectMatches(nodes, query)
         IN  /\ g_call' = [called |-> TRUE, query |-> query,
                           max_depth |-> max_depth]
             /\ subgraph' = get_subgraph(nodes, edges, adj_list, query,
                                         max_depth)
             /\ adj_list' = Expand(adj_list, matched, matched, max_depth).adj
    /\ graph_text' = <<>>
    /\ UNCHANGED <<provider, use_mcp, rvars, gvars, nodes, edges, graph_file,
                   env, ctor, cache, llm_up,
                   events, today, e_call, e_kept, e_ret,
                   people, p_call, p_ret>>

\* the tool search_graph(query), which looks the query up in the index at
\* the default depth
SearchGraph ==
    /\ \E query \in GraphQueries :
         LET matched == DirectMatches(nodes, query)
         IN  /\ g_call' = [called |-> TRUE, query |-> query,
                           max_depth |-> DefaultDepth]
             /\ subgraph' = get_subgraph(nodes, edges, adj_list, query,
                                         DefaultDepth)
             /\ adj_list' = Expand(adj_list, matched, matched,
                                   DefaultDepth).adj
             /\ graph_text' = search_graph(nodes, edges, adj_list, query)
    /\ UNCHANGED <<provider, use_mcp, rvars, gvars, nodes, edges, graph_file,
                   env, ctor, cache, llm_up,
                   events, today, e_call, e_kept, e_ret,
                   people, p_call, p_ret>>

SpecGraph == InitGraph /\ [][GetSubgraph \/ SearchGraph]_vars

----------------------------------------------------------------------------
(* Claims about get_subgraph.  The claims speak of matching nodes and of   *)
(* hops along edges; both are stated here on the tables themselves, not on *)
(* the adjacency list the code walks.                                      *)

NodeIds == {nodes[i].id : i \in 1..Len(nodes)}

\* some whitespace-separated token of the query is a case-insensitive
\* substring of the node's id, name or type
TokenMatches(node, query) ==
    \E t \in Range(Split(query)) :
      \E field \in {node.id, node.name, node.type} :
        Contains(Lower(t), Lower(field))

\* the ids of the nodes the last call's query matches directly
MatchedIds ==
    {nodes[i].id : i \in {j \in 1..Len(nodes) :
                            TokenMatches(nodes[j], g_call.query)}}

\* x and y are the two ends of some edge row, in either direction (a row
\* with an empty cell has only one end and joins nothing)
Hop(x, y) ==
    \E i \in 1..Len(edges) :
      /\ edges[i].source # <<>>
      /\ edges[i].target # <<>>
      /\ \/ edges[i].source = x /\ edges[i].target = y
         \/ edges[i].source = y /\ edges[i].target = x

EdgeEnds == UNION {{edges[i].source, edges[i].target} : i \in 1..Len(edges)}

\* what lies within d hops of the set S
RECURSIVE WithinHops(_, _)
WithinHops(S, d) ==
    IF d = 0 THEN S
    ELSE WithinHops(S \cup {y \in EdgeEnds : \E x \in S : Hop(x, y)}, d - 1)

\* the nodes within max_depth hops of a directly matching node
ReachedNodeIds == WithinHops(MatchedIds, g_call.max_depth) \cap NodeIds

\* the rows of a table whose ids / ends all lie in the set S, in table order
NodesAmong(S) ==
    LET In(n) == n.id \in S
    IN  SelectSeq(nodes, In)

EdgesAmong(S) ==
    LET In(e) == e.source \in S /\ e.target \in S
    IN  SelectSeq(edges, In)

\* C12: get_subgraph(query, max_depth=d) returns exactly the nodes within d
\* hops (edges undirected) of a node whose id, name or type contains a
\* query token case-insensitively, and exactly the edges whose both
\* endpoints are among those reached nodes; no match gives an empty subgraph
C12_NodesWithinDepthAndInducedEdges ==
    g_call.called =>
      /\ subgraph.nodes = NodesAmong(ReachedNodeIds)
      /\ subgraph.edges = EdgesAmong(ReachedNodeIds)
      /\ MatchedIds = {} => subgraph = NoSubgraph

\* C13 as stated: at max_depth=0 the result holds exactly the directly
\* matching nodes and no edges, also when matched nodes are connected
C13_DepthZeroNoEdges ==
    (g_call.called /\ g_call.max_depth = 0) =>
      /\ subgraph.nodes = NodesAmong(MatchedIds)
      /\ subgraph.edges = <<>>

\* C13 as the code has it: at max_depth=0 the result holds exactly the
\* directly matching nodes, and exactly the edges whose source and target
\* are both directly matching nodes (none when no two matched nodes are
\* joined and no matched node has a self-loop)
C13_DepthZeroMatchedOnly ==
    (g_call.called /\ g_call.max_depth = 0) =>
      /\ subgraph.nodes = NodesAmong(MatchedIds)
      /\ subgraph.edges = EdgesAmong(MatchedIds)

\* a depth-0 call that matched two nodes through their type, returned an
\* edge joining matched nodes and left another edge of the table out
C13_Witness ==
    /\ g_call.called
    /\ g_call.max_depth = 0
    /\ g_call.query = <<"x">>
    /\ Len(subgraph.nodes) = 2
    /\ subgraph.edges # <<>>
    /\ Len(subgraph.edges) < Len(edges)

\* C14: an edge whose source or target is the id of no loaded node is
\* dropped: every edge get_subgraph returns has its source and its target
\* among the ids of the nodes returned with it
C14_ReturnedEdgesJoinReturnedNodes ==
    g_call.called =>
      \A k \in 1..Len(subgraph.edges) :
        /\ subgraph.edges[k].source \in Range([i \in 1..Len(subgraph.nodes)
                                                 |-> subgraph.nodes[i].id])
        /\ subgraph.edges[k].target \in Range([i \in 1..Len(subgraph.nodes)
                                                 |-> subgraph.nodes[i].id])

C27_QueriesLeaveIndexUnchanged ==
    [][/\ nodes' = nodes
       /\ edges' = edges
       /\ adj_list' = adj_list
       /\ DOMAIN adj_list' = DOMAIN adj_list]_vars

\* a query answered with a node that has no adjacency entry, on an index
\* whose adjacency list is still the one built from the edges
C27_Witness ==
    /\ g_call.called
    /\ g_call.max_depth >= 1
    /\ \E i \in 1..Len(subgraph.nodes) :
         subgraph.nodes[i].id \notin DOMAIN adj_list
    /\ adj_list = _build_adjacency_list(edges)

----------------------------------------------------------------------------
(* _load_graph and _parse_table (graph_utils.py:16-71).  The regular       *)
(* expression of line 42 is taken at its result: the text of the header    *)
(* row between its outer bars, and the data rows, each from its first bar  *)
(* to its last.                                                            *)

\* most cells of a data row
MaxCells == 3

\* str.strip()
StrStrip(s) ==
    LET idx == {i \in 1..Len(s) : s[i] # " "}
    IN  IF idx = {} THEN <<>>
        ELSE SubSeq(s, CHOOSE i \in idx : \A j \in idx : i <= j,
                       CHOOSE i \in idx : \A j \in idx : j <= i)

\* str.split(sep): the texts before, between and after the separators
SplitOn(s, sep) ==
    LET at == {i \in 1..Len(s) : s[i] = sep}
        n == Cardinality(at)
        Pos(k) == CHOOSE i \in at : Cardinality({j \in at : j < i}) = k - 1
    IN  [k \in 1..(n + 1) |->
           SubSeq(s, IF k = 1 THEN 1 ELSE Pos(k - 1) + 1,
                     IF k = n + 1 THEN Len(s) ELSE Pos(k) - 1)]

\* headers = [h.strip().lower() for h in header_row.split('|') if h.strip()]
Headers(header_row) ==
    LET NonBlank(h) == StrStrip(h) # <<>>
        hs == SelectSeq(SplitOn(StrStrip(header_row), "|"), NonBlank)
    IN  [i \in 1..Len(hs) |-> Lower(StrStrip(hs[i]))]

\* lines 55-69: the dict of one data row; a dict is the function from its
\* keys to their values, and a later assignment to a key replaces an
\* earlier one
ParseRow(headers, row) ==
    LET KeepCell(c) == StrStrip(c) # <<>> \/ c = <<>>
        kept == SelectSeq(SplitOn(row, "|"), KeepCell)
        cells0 == [i \in 1..Len(kept) |-> StrStrip(kept[i])]
        stripped == StrStrip(row)
        cells1 == IF stripped # <<>> /\ Head(stripped) = "|"
                  THEN SubSeq(cells0, 2, Len(cells0)) ELSE cells0
        cells == IF stripped # <<>> /\ stripped[Len(stripped)] = "|"
                 THEN SubSeq(cells1, 1, Len(cells1) - 1) ELSE cells1
        Last(h) == CHOOSE i \in 1..Len(headers) :
                     /\ headers[i] = h
                     /\ \A j \in 1..Len(headers) : headers[j] = h => j <= i
    IN  [h \in Range(headers) |->
           IF Last(h) <= Len(cells) THEN cells[Last(h)] ELSE <<>>]

\* _parse_table(content, section_name) on a file whose section holds the
\* given header row and data rows; no data row means no match
_parse_table(header_row, data_rows) ==
    IF data_rows = <<>> THEN <<>>
    ELSE [r \in 1..Len(data_rows) |->
            ParseRow(Headers(header_row), data_rows[r])]

\* "|" cell "|" cell "|" ... : the text of a data row
RECURSIVE RowText(_)
RowText(cells) ==
    IF cells = <<>> THEN <<"|">>
    ELSE <<"|">> \o Head(cells) \o RowText(Tail(cells))

\* the graph files read: none, or a file whose Nodes section has a header
\* row of three or of two columns and one data row of filled, empty and
\* blank cells, and which has no Edges section
GraphFiles ==
    {NoFile}
    \cup {[exists |-> TRUE, header_row |-> h, data_rows |-> <<RowText(c)>>,
           loaded |-> FALSE] :
            h \in {<<" ", "a", " ", "|", " ", "B", " ", "|", "x">>,
                   <<"a", "|", "b">>},
            c \in SeqsUpTo({<<"p">>, <<>>, <<" ">>, <<" ", "q", " ">>},
                           MaxCells) \ {<<>>}}

\* SpecParse: a GraphUtils object whose fields were just created
\* (graph_utils.py:11-13), then _load_graph on its file
InitParse ==
    /\ provider = "openai"
    /\ use_mcp = TRUE
    /\ question = "Q"
    /\ RetrievalIdle
    /\ GenerateIdle
    /\ EngineIdle
    /\ nodes = <<>>
    /\ edges = <<>>
    /\ adj_list = <<>>
    /\ g_call = NoCall
    /\ subgraph = NoSubgraph
    /\ graph_text = <<>>
    /\ graph_file \in GraphFiles
    /\ EventsIdle
    /\ PeopleIdle

\* self._load_graph()
LoadGraph ==
    /\ ~graph_file.loaded
    /\ graph_file' = [graph_file EXCEPT !.loaded = TRUE]
    /\ IF ~graph_file.exists
       THEN UNCHANGED <<nodes, edges, adj_list>>
       ELSE /\ nodes' = _parse_table(graph_file.header_row,
                                     graph_file.data_rows)
            /\ edges' = _parse_table(<<>>, <<>>)
            /\ adj_list' = _build_adjacency_list(edges')
    /\ UNCHANGED <<provider, use_mcp, rvars, gvars, g_call, subgraph,
                   graph_text, env, ctor, cache, llm_up,
                   events, today, e_call, e_kept, e_ret,
                   people, p_call, p_ret>>

SpecParse == InitParse /\ [][LoadGraph]_vars

\* the cells of a data row as written: the texts between one bar and the
\* next, from the first bar of the row to its last
RECURSIVE CellsAfter(_, _, _)
CellsAfter(row, i, cell) ==
    IF i > Len(row) THEN <<>>
    ELSE IF row[i] = "|"
         THEN <<cell>> \o CellsAfter(row, i + 1, <<>>)
         ELSE CellsAfter(row, i + 1, Append(cell, row[i]))

WrittenCells(row) == CellsAfter(row, 2, <<>>)

\* C28: for every data row the i-th header column holds the row's i-th
\* cell, stripped, and the columns past the row's last cell hold the empty
\* string; an empty or blank cell gives the empty string under its own
\* column and shifts no later cell; a missing file gives an empty graph
C28_CellsMapToTheirColumns ==
    graph_file.loaded =>
      IF ~graph_file.exists
      THEN nodes = <<>> /\ edges = <<>> /\ adj_list = <<>>
      ELSE /\ Len(nodes) = Len(graph_file.data_rows)
           /\ \A r \in 1..Len(nodes) :
                LET headers == Headers(graph_file.header_row)
                    written == WrittenCells(graph_file.data_rows[r])
                IN  /\ DOMAIN nodes[r] = Range(headers)
                    /\ \A i \in 1..Len(headers) :
                         nodes[r][headers[i]] =
                           IF i <= Len(written) THEN StrStrip(written[i])
                           ELSE <<>>

----------------------------------------------------------------------------
(* Dates (datetime.strptime, datetime comparison, str comparison).         *)

\* 23:59:59 as seconds of the day: end_dt.replace(hour=23, minute=59,
\* second=59)
EndOfDay == 86399
\* timedelta.days counts whole days of 86400 seconds
SecondsPerDay == 86400
\* delta > 7
WeekDays == 7
\* results[:10]
ResultCap == 10

\* ord(c) for the characters a date string is written with
Ord(c) ==
    CASE c = "-" -> 45
      [] c = "0" -> 48
      [] c = "1" -> 49
      [] c = "2" -> 50
      [] c = "3" -> 51
      [] c = "4" -> 52
      [] c = "5" -> 53
      [] c = "6" -> 54
      [] c = "7" -> 55
      [] c = "8" -> 56
      [] c = "9" -> 57

AllDigits(s) == \A i \in 1..Len(s) : Ord(s[i]) \in 48..57

\* int(s) for a string of digits
RECURSIVE Num(_)
Num(s) ==
    IF s = <<>> THEN 0
    ELSE 10 * Num(SubSeq(s, 1, Len(s) - 1)) + (Ord(s[Len(s)]) - 48)

\* the fields of s between the occurrences of "-"
RECURSIVE FieldsFrom(_, _, _, _)
FieldsFrom(s, i, field, acc) ==
    IF i > Len(s) THEN Append(acc, field)
    ELSE IF s[i] = "-"
         THEN FieldsFrom(s, i + 1, <<>>, Append(acc, field))
         ELSE FieldsFrom(s, i + 1, Append(field, s[i]), acc)

Fields(s) == FieldsFrom(s, 1, <<>>, <<>>)

IsLeap(y) == y % 4 = 0 /\ (y % 100 # 0 \/ y % 400 = 0)

DaysInMonth(y, m) ==
    CASE m = 2 -> IF IsLeap(y) THEN 29 ELSE 28
      [] m \in {4, 6, 9, 11} -> 30
      [] OTHER -> 31

RECURSIVE DaysBeforeMonth(_, _)
DaysBeforeMonth(y, m) ==
    IF m <= 1 THEN 0 ELSE DaysBeforeMonth(y, m - 1) + DaysInMonth(y, m - 1)

\* date.toordinal(): day 1 is 0001-01-01
ToOrdinal(y, m, d) ==
    365 * (y - 1) + ((y - 1) \div 4) - ((y - 1) \div 100)
      + ((y - 1) \div 400) + DaysBeforeMonth(y, m) + d

\* datetime.strptime(s, "%Y-%m-%d"): four digits of year, one or two of
\* month, one or two of day, naming a day of the calendar; else ValueError
strptime(s) ==
    LET f == Fields(s)
        wellFormed ==
          /\ Len(f) = 3
          /\ Len(f[1]) = 4 /\ AllDigits(f[1])
          /\ Len(f[2]) \in 1..2 /\ AllDigits(f[2])
          /\ Len(f[3]) \in 1..2 /\ AllDigits(f[3])
          /\ Num(f[1]) >= 1
          /\ Num(f[2]) \in 1..12
          /\ Num(f[3]) \in 1..DaysInMonth(Num(f[1]), Num(f[2]))
    IN  IF wellFormed
        THEN [ok |-> TRUE,
              dt |-> [ord |-> ToOrdinal(Num(f[1]), Num(f[2]), Num(f[3])),
                      secs |-> 0]]
        ELSE [ok |-> FALSE, dt |-> NoDatetime]


\* the parse of an optional argument: None when it is not given, empty, or
\* raises ValueError (tools.py:107-120)
ParseBound(o) ==
    IF Truthy(o) THEN strptime(o.text) ELSE [ok |-> FALSE, dt |-> NoDatetime]

\* a <= b on datetimes
dt_le(a, b) == a.ord < b.ord \/ (a.ord = b.ord /\ a.secs <= b.secs)

\* a < b on datetimes
dt_lt(a, b) == a.ord < b.ord \/ (a.ord = b.ord /\ a.secs < b.secs)

\* (a - b).days: a timedelta keeps 0 <= seconds < 86400, so its days are
\* the difference of the days, less one when the seconds borrow
DeltaDays(a, b) ==
    (a.ord - b.ord) + ((a.secs - b.secs) \div SecondsPerDay)

\* a < b on str: the first differing character decides, a proper prefix
\* comes first
StrLess(a, b) ==
    \E k \in 1..Len(b) :
      /\ SubSeq(a, 1, k - 1) = SubSeq(b, 1, k - 1)
      /\ k - 1 <= Len(a)
      /\ \/ Len(a) = k - 1
         \/ Ord(a[k]) < Ord(b[k])

----------------------------------------------------------------------------
(* get_events (src/src/mcp/tools.py).                                      *)

\* most records of raw_events.json, apart from the one long file
MaxEvents == 2
\* the number of records of the long file
LongFileLen == 11

D_0214 == <<"2", "0", "2", "6", "-", "0", "2", "-", "1", "4">>
D_0215 == <<"2", "0", "2", "6", "-", "0", "2", "-", "1", "5">>
D_0220 == <<"2", "0", "2", "6", "-", "0", "2", "-", "2", "0">>
D_0301 == <<"2", "0", "2", "6", "-", "0", "3", "-", "0", "1">>
\* a date string strptime rejects
D_Month == <<"2", "0", "2", "6", "-", "0", "2">>

Event(title, abstract, date) ==
    [title |-> title, abstract |-> abstract, description |-> <<>>,
     date |-> date]

Past    == Event(<<"T", "a">>, <<>>, Given(D_0214))
Current == Event(<<"W">>, <<"a">>, Given(D_0215))
Soon    == Event(<<"T", "a">>, <<>>, Given(D_0220))
Later   == Event(<<"W">>, <<>>, Given(D_0301))
\* metadata without a "date" key (mcmp_scraper.py:129-130)
Undated == Event(<<"T", "a">>, <<>>, Absent)
Partial == Event(<<"W">>, <<"a">>, Given(D_Month))
Blank   == Event(<<"T", "a">>, <<>>, Given(<<>>))

EventRecords == {Past, Current, Soon, Later, Undated, Partial, Blank}

\* a file of many events on one day followed by one earlier event
LongFile == [i \in 1..LongFileLen |-> IF i = LongFileLen THEN Soon ELSE Later]

EventFiles == SeqsUpTo(EventRecords, MaxEvents) \cup {LongFile}

\* datetime.now(): the morning's first instant or noon of 2026-02-15
Nows == {[ord |-> strptime(D_0215).dt.ord, secs |-> s] : s \in {0, 43200}}

\* tools.py:132-135
TextOk(event, query) ==
    Truthy(query) =>
      Contains(Lower(query.text),
               Lower(event.title \o <<" ">> \o event.abstract \o <<" ">>
                     \o event.description))

\* tools.py:138
TypeOk(event, type_filter) ==
    Truthy(type_filter) =>
      Contains(Lower(type_filter.text), Lower(event.title))

\* explicit bounds that never take precedence
ExplicitBoundsNever(start_dt, end_dt) == FALSE

\* if start_dt or end_dt
ExplicitBounds(start_dt, end_dt) == start_dt.ok \/ end_dt.ok

\* tools.py:149-152
BoundsOk(evt_date, start_dt, end_dt) ==
    /\ ~(start_dt.ok /\ dt_lt(evt_date, start_dt.dt))
    /\ ~(end_dt.ok /\ dt_lt(end_dt.dt, evt_date))

\* tools.py:155-162
PresetOk(date_range, evt_date, now) ==
    /\ ~(date_range = "today" /\ evt_date.ord # now.ord)
    /\ ~(date_range \in {"upcoming", NoDateRange} /\ dt_lt(evt_date, now))
    /\ ~(/\ date_range = "this_week"
         /\ \/ DeltaDays(evt_date, now) < 0
            \/ DeltaDays(evt_date, now) > WeekDays)

\* tools.py:142-165
DateOk(event, date_range, start_dt, end_dt, now) ==
    IF ~Truthy(event.date) THEN TRUE
    ELSE LET p == strptime(event.date.text)
         IN  IF ~p.ok THEN TRUE
             ELSE IF ExplicitBounds(start_dt, end_dt)
                  THEN BoundsOk(p.dt, start_dt, end_dt)
                  ELSE PresetOk(date_range, p.dt, now)

\* the dict appended to results (tools.py:167-176)
EventResult(event) ==
    [title |-> event.title, date |-> event.date,
     abstract |-> event.abstract, description |-> event.description]

\* list.sort compares the keys x.get("date", ...): the key "date" is always
\* there, so the default is never used; comparing None with a str or with
\* None raises TypeError
SortRaises(evs, kept) ==
    Len(kept) >= 2 /\ \E k \in 1..Len(kept) : ~evs[kept[k]].date.given

\* one step of a stable sort: i goes after every entry whose key is not
\* greater
RECURSIVE InsertSorted(_, _, _)
InsertSorted(evs, sorted, i) ==
    IF sorted = <<>> THEN <<i>>
    ELSE IF StrLess(evs[i].date.text, evs[sorted[Len(sorted)]].date.text)
         THEN Append(InsertSorted(evs, SubSeq(sorted, 1, Len(sorted) - 1), i),
                     sorted[Len(sorted)])
         ELSE Append(sorted, i)

RECURSIVE SortFrom(_, _, _, _)
SortFrom(evs, kept, k, sorted) ==
    IF k > Len(kept) THEN sorted
    ELSE SortFrom(evs, kept, k + 1, InsertSorted(evs, sorted, kept[k]))

\* results.sort(key=lambda x: x.get("date", "9999-99-99"))
SortByDate(evs, kept) == SortFrom(evs, kept, 1, <<>>)

\* get_events(date_range, type_filter, start_date, end_date, query) on the
\* records evs at the instant now
get_events(evs, now, args) ==
    LET start_dt == ParseBound(args.start_date)
        end_parsed == ParseBound(args.end_date)
        end_dt == IF end_parsed.ok
                  THEN [ok |-> TRUE,
                        dt |-> [end_parsed.dt EXCEPT !.secs = EndOfDay]]
                  ELSE end_parsed
        Keep(i) == /\ TextOk(evs[i], args.query)
                   /\ TypeOk(evs[i], args.type_filter)
                   /\ DateOk(evs[i], args.date_range, start_dt, end_dt, now)
        Idx == [i \in 1..Len(evs) |-> i]
        kept == SelectSeq(Idx, Keep)
        order == SubSeq(SortByDate(evs, kept), 1, Min(ResultCap, Len(kept)))
    IN  IF SortRaises(evs, kept)
        THEN [kept |-> kept, kind |-> "raise", order |-> <<>>, value |-> <<>>]
        ELSE [kept |-> kept, kind |-> "return", order |-> order,
              value |-> [k \in 1..Len(order) |-> EventResult(evs[order[k]])]]

----------------------------------------------------------------------------
(* SpecEvents: one get_events call on the records of raw_events.json.      *)

InitEvents ==
    /\ provider = "openai"
    /\ use_mcp = TRUE
    /\ question = "Q"
    /\ RetrievalIdle
    /\ GenerateIdle
    /\ EngineIdle
    /\ GraphIdle
    /\ events \in EventFiles
    /\ today \in Nows
    /\ e_call = NoEventsCall
    /\ e_kept = <<>>
    /\ e_ret = NoEventsRet
    /\ PeopleIdle

\* get_events(date_range, type_filter, start_date, end_date, query)
GetEvents ==
    /\ ~e_call.called
    /\ \E date_range \in {NoDateRange, "upcoming", "today", "this_week"},
          type_filter \in {Absent, Given(<<"t">>)},
          start_date \in {Absent, Given(D_0215), Given(D_Month)},
          end_date \in {Absent, Given(D_0220), Given(D_Month)},
          query \in {Absent, Given(<<"A">>)} :
         LET args == [called |-> TRUE, date_range |-> date_range,
                      type_filter |-> type_filter, start_date |-> start_date,
                      end_date |-> end_date, query |-> query]
             r == get_events(events, today, args)
         IN  /\ e_call' = args
             /\ e_kept' = r.kept
             /\ e_ret' = [kind |-> r.kind, order |-> r.order,
                          value |-> r.value]
    /\ UNCHANGED <<provider, use_mcp, rvars, gvars,
                   nodes, edges, adj_list, g_call, subgraph, graph_text,
                   graph_file, env, ctor, cache, llm_up,
                   events, today, people, p_call, p_ret>>

SpecEvents == InitEvents /\ [][GetEvents]_vars

----------------------------------------------------------------------------
(* Claims about get_events.  They are stated on the days of the calendar:  *)
(* the day of an event is the ordinal of its parsed date.                  *)

EventIndices == 1..Len(events)

\* the event has a date that parses as YYYY-MM-DD
Dated(i) == Truthy(events[i].date) /\ strptime(events[i].date.text).ok

DayOf(i) == strptime(events[i].date.text).dt.ord

\* the event passes the text filter and the type filter of the call
PassesTextAndType(i) ==
    /\ TextOk(events[i], e_call.query)
    /\ TypeOk(events[i], e_call.type_filter)

\* the event passed every filter of the call
Kept(i) == i \in Range(e_kept)

StartDay == ParseBound(e_call.start_date)
EndDay == ParseBound(e_call.end_date)

\* the day lies within the explicit bounds that parse, both inclusive
WithinExplicitBounds(i) ==
    /\ StartDay.ok => StartDay.dt.ord <= DayOf(i)
    /\ EndDay.ok => DayOf(i) <= EndDay.dt.ord

\* C15 as stated: whenever start_date or end_date is supplied, the preset
\* (also the default 'upcoming') and the current time play no part: a dated
\* event passes the date filter exactly when it lies within the explicit
\* bounds
C15_SuppliedBoundsOverridePreset ==
    (e_call.called /\ (e_call.start_date.given \/ e_call.end_date.given)) =>
      \A i \in EventIndices :
        (Dated(i) /\ PassesTextAndType(i)) =>
          (Kept(i) <=> WithinExplicitBounds(i))

\* C15 as the code has it: whenever a supplied start_date or end_date
\* parses, the preset and the current time play no part, and a dated event
\* passes the date filter exactly when it lies within the bounds that parse
C15_ParsedBoundsOverridePreset ==
    (e_call.called /\ (StartDay.ok \/ EndDay.ok)) =>
      \A i \in EventIndices :
        (Dated(i) /\ PassesTextAndType(i)) =>
          (Kept(i) <=> WithinExplicitBounds(i))

\* a call at noon with the default preset and a start_date of today: the
\* event of today, which the preset would drop, is kept, and an earlier
\* event is dropped
C15_Witness ==
    /\ e_call.called
    /\ e_call.date_range = NoDateRange
    /\ e_call.start_date = Given(D_0215)
    /\ today.secs > 0
    /\ \E i \in EventIndices : events[i] = Current /\ Kept(i)
    /\ \E i \in EventIndices : events[i] = Past /\ ~Kept(i)

\* C16: with no date_range and no explicit dates the call returns what
\* date_range='upcoming' returns, and under 'upcoming' a dated event is kept
\* exactly when its day is not before the current day, so that an event of
\* the current day is kept
C16_DefaultIsUpcomingFromToday ==
    (/\ e_call.called
     /\ ~e_call.start_date.given
     /\ ~e_call.end_date.given
     /\ e_call.date_range \in {NoDateRange, "upcoming"}) =>
      /\ LET r == get_events(events, today,
                             [e_call EXCEPT !.date_range = "upcoming"])
         IN  /\ e_kept = r.kept
             /\ e_ret = [kind |-> r.kind, order |-> r.order,
                         value |-> r.value]
      /\ \A i \in EventIndices :
           (Dated(i) /\ PassesTextAndType(i)) =>
             (Kept(i) <=> DayOf(i) >= today.ord)

\* C17: an event whose date is missing or does not parse is excluded by no
\* date filter, only by the text and type filters, and no record makes
\* get_events raise
C17_UndatedKeptAndNoRaise ==
    e_call.called =>
      /\ e_ret.kind = "return"
      /\ \A i \in EventIndices :
           ~Dated(i) => (Kept(i) <=> PassesTextAndType(i))

\* event i must come before event j: both are dated and i is on an earlier
\* day, or i is dated and j is not
MustPrecede(i, j) ==
    \/ Dated(i) /\ ~Dated(j)
    \/ Dated(i) /\ Dated(j) /\ DayOf(i) < DayOf(j)

\* C18: at most 10 events are returned, ascending by date with the events
\* whose date does not parse after all dated ones, and they are the first
\* 10 of the sorted matches
C18_SortedDatedFirstThenCapped ==
    (e_call.called /\ e_ret.kind = "return") =>
      /\ Len(e_ret.order) = Min(ResultCap, Len(e_kept))
      /\ Range(e_ret.order) \subseteq Range(e_kept)
      /\ \A j, k \in 1..Len(e_ret.order) :
           j < k => ~MustPrecede(e_ret.order[k], e_ret.order[j])
      /\ \A i \in Range(e_kept) \ Range(e_ret.order) :
           \A k \in 1..Len(e_ret.order) : ~MustPrecede(i, e_ret.order[k])

\* C19: with start_date and end_date that parse and no text or type filter,
\* a dated event passes exactly when start_date <= date <= end_date, both
\* bounds inclusive at the granularity of a day
C19_InclusiveDayBounds ==
    (/\ e_call.called
     /\ StartDay.ok
     /\ EndDay.ok
     /\ ~e_call.query.given
     /\ ~e_call.type_filter.given) =>
      \A i \in EventIndices :
        Dated(i) =>
          (Kept(i) <=> (StartDay.dt.ord <= DayOf(i)
                        /\ DayOf(i) <= EndDay.dt.ord))

\* a call with both bounds and no other filter that kept an event dated on
\* a bound and dropped an event dated beyond one
C19_Witness ==
    /\ e_call.called
    /\ StartDay.ok
    /\ EndDay.ok
    /\ ~e_call.query.given
    /\ ~e_call.type_filter.given
    /\ \E i \in EventIndices :
         /\ Dated(i)
         /\ Kept(i)
         /\ DayOf(i) \in {StartDay.dt.ord, EndDay.dt.ord}
    /\ \E i \in EventIndices :
         /\ Dated(i)
         /\ ~Kept(i)
         /\ (DayOf(i) < StartDay.dt.ord \/ DayOf(i) > EndDay.dt.ord)

----------------------------------------------------------------------------
(* search_people (src/src/mcp/tools.py).                                   *)

\* most records of people.json, apart from the one long file
MaxPeople == 2
\* the number of records of the long file
LongPeopleLen == 11

\* a record of people.json: metadata.role is what the enrichment found in
\* the description, metadata.position is what the scraper read; either may
\* be missing (empty here)
Person(name, description, role, position) ==
    [name |-> name, description |-> description, role |-> role,
     position |-> position]

Enriched == Person(<<"B", "o">>, <<"x">>, <<"P", "r">>, <<>>)
Scraped  == Person(<<"A", "b">>, <<"b", "o">>, <<>>, <<"P", "r">>)
TwoRoles == Person(<<"b", "O">>, <<>>, <<"L", "e">>, <<"P", "r">>)
NoRole   == Person(<<"D", "e">>, <<"d">>, <<>>, <<>>)

PersonRecords == {Enriched, Scraped, TwoRoles, NoRole}

\* a file of more records matching "bo" than a call returns
LongPeople ==
    [i \in 1..LongPeopleLen |->
       CASE i % 3 = 1 -> Enriched
         [] i % 3 = 2 -> Scraped
         [] OTHER -> TwoRoles]

PeopleFiles == SeqsUpTo(PersonRecords, MaxPeople) \cup {LongPeople}

Unknown == <<"U", "n", "k", "n", "o", "w", "n">>

\* the role alone, the position never looked at
PersonRoleOnly(person) == Lower(person.role)

\* tools.py:33-36: metadata.role, or metadata.position when there is no role
PersonRole(person) ==
    Lower(IF person.role # <<>> THEN person.role ELSE person.position)

\* tools.py:39-43
PersonMatches(person, query, role_filter) ==
    /\ ~(role_filter.given
         /\ ~Contains(role_filter.text, PersonRole(person)))
    /\ \/ Contains(query, Lower(person.name))
       \/ Contains(query, Lower(person.description))

\* the dict appended to results (tools.py:44-58)
PersonResult(person) ==
    [name |-> person.name,
     role |-> IF person.role # <<>> THEN person.role
              ELSE IF person.position # <<>> THEN person.position
              ELSE Unknown,
     description |-> person.description]

\* search_people(query, role_filter) on the records ps
search_people(ps, query, role_filter) ==
    LET query_lower == Lower(query)
        filter_lower == IF Truthy(role_filter)
                        THEN Given(Lower(role_filter.text))
                        ELSE Absent
        Match(i) == PersonMatches(ps[i], query_lower, filter_lower)
        Idx == [i \in 1..Len(ps) |-> i]
        results == SelectSeq(Idx, Match)
        order == SubSeq(results, 1, Min(ResultCap, Len(results)))
    IN  [order |-> order,
         value |-> [k \in 1..Len(order) |-> PersonResult(ps[order[k]])]]

----------------------------------------------------------------------------
(* SpecPeople: one search_people call on the records of people.json.       *)

InitPeople ==
    /\ provider = "openai"
    /\ use_mcp = TRUE
    /\ question = "Q"
    /\ RetrievalIdle
    /\ GenerateIdle
    /\ EngineIdle
    /\ GraphIdle
    /\ EventsIdle
    /\ people \in PeopleFiles
    /\ p_call = NoPeopleCall
    /\ p_ret = NoPeopleRet

\* search_people(query, role_filter)
SearchPeople ==
    /\ ~p_call.called
    /\ \E query \in {<<>>, <<"B", "O">>, <<"x">>, <<"p", "p">>},
          role_filter \in {Absent, Given(<<>>), Given(<<"P", "R">>),
                           Given(<<"l", "e">>)} :
         /\ p_call' = [called |-> TRUE, query |-> query,
                       role_filter |-> role_filter]
         /\ p_ret' = search_people(people, query, role_filter)
    /\ UNCHANGED <<provider, use_mcp, rvars, gvars,
                   nodes, edges, adj_list, g_call, subgraph, graph_text,
                   graph_file, env, ctor, cache, llm_up,
                   events, today, e_call, e_kept, e_ret, people>>

SpecPeople == InitPeople /\ [][SearchPeople]_vars

----------------------------------------------------------------------------
(* Claims about search_people.                                             *)

\* the role a record is filtered on: its role or, when it has none, its
\* position
RoleOrPosition(i) ==
    IF people[i].role = <<>> THEN people[i].position ELSE people[i].role

\* the record's name or description contains the query, and its role (or
\* position) contains the role filter when one is given, case-insensitively
Matching(i) ==
    /\ \/ Contains(Lower(p_call.query), Lower(people[i].name))
       \/ Contains(Lower(p_call.query), Lower(people[i].description))
    /\ p_call.role_filter.given =>
         Contains(Lower(p_call.role_filter.text), Lower(RoleOrPosition(i)))

MatchingIndices == {i \in 1..Len(people) : Matching(i)}

\* C20: search_people returns, in the order of the records, the first at
\* most 10 records whose name or description contains the query as a
\* case-insensitive substring and, when role_filter is given, whose role
\* (the position when the record has no role) contains role_filter as a
\* case-insensitive substring; an empty list when no record matches
C20_FirstTenMatchesInRecordOrder ==
    p_call.called =>
      /\ Len(p_ret.order) = Min(ResultCap, Cardinality(MatchingIndices))
      /\ Range(p_ret.order) \subseteq MatchingIndices
      /\ \A j, k \in 1..Len(p_ret.order) :
           j < k => p_ret.order[j] < p_ret.order[k]
      /\ \A i \in MatchingIndices \ Range(p_ret.order) :
           \A k \in 1..Len(p_ret.order) : p_ret.order[k] < i
      /\ Len(p_ret.value) = Len(p_ret.order)
      /\ \A k \in 1..Len(p_ret.order) :
           /\ p_ret.value[k].name = people[p_ret.order[k]].name
           /\ p_ret.value[k].description = people[p_ret.order[k]].description

\* a call whose upper-case query matched more than 10 records, through a
\* name in some and through the description in others: the first 10 were
\* returned and the eleventh left out
C20_Witness ==
    /\ p_call.called
    /\ p_call.query = <<"B", "O">>
    /\ Cardinality(MatchingIndices) > ResultCap
    /\ Len(p_ret.order) = ResultCap
    /\ \E k \in 1..Len(p_ret.order) : people[p_ret.order[k]] = Scraped

----------------------------------------------------------------------------
(* Claims that relate get_events calls.                                    *)

\* the events the call at hand would keep, before the cap, had its
\* date_range been this preset, all else the same
KeptUnder(date_range) ==
    Range(get_events(events, today,
                     [e_call EXCEPT !.date_range = date_range]).kept)

\* C30: for the same records, the same current time and the same text and
\* type filters the date presets are nested: what 'today' keeps is kept by
\* 'this_week' and by 'upcoming', and what 'this_week' keeps is kept by
\* 'upcoming'
C30_PresetsNested ==
    e_call.called =>
      /\ KeptUnder("today") \subseteq KeptUnder("this_week")
      /\ KeptUnder("today") \subseteq KeptUnder("upcoming")
      /\ KeptUnder("this_week") \subseteq KeptUnder("upcoming")

----------------------------------------------------------------------------
(* RAGEngine.__init__ (engine.py:17-43).                                   *)

\* a lookup that falls back on OPENAI_API_KEY for a provider it does not know
getenv_or_openai(prov, api_key, environ) ==
    IF prov \in KnownProviders THEN environ[prov] ELSE environ["openai"]

\* lines 32-38: os.getenv of the provider's variable; no branch of the
\* if/elif chain is taken for another provider and self.api_key stays
getenv(prov, api_key, environ) ==
    IF prov \in KnownProviders THEN environ[prov] ELSE api_key

\* RAGEngine(provider, api_key): what the constructor does and the
\* self.api_key of the engine it builds
__init__(prov, api_key, environ) ==
    LET found == IF ~Truthy(api_key) THEN getenv(prov, api_key, environ)
                 ELSE api_key
    IN  IF ~Truthy(found)
        THEN [kind |-> "raise", credential |-> Absent]
        ELSE [kind |-> "return", credential |-> found]

\* SpecConstruct: an environment, then one RAGEngine(provider, api_key)
InitConstruct ==
    /\ provider \in Providers
    /\ use_mcp = TRUE
    /\ question = "Q"
    /\ RetrievalIdle
    /\ GenerateIdle
    /\ env \in [{"openai", "anthropic", "gemini"} ->
                  {Absent, Given(<<>>), Given(<<"e">>)}]
    /\ ctor = NoCtor
    /\ cache = <<>>
    /\ llm_up = TRUE
    /\ GraphIdle
    /\ EventsIdle
    /\ PeopleIdle

Construct ==
    /\ ~ctor.called
    /\ \E api_key \in {Absent, Given(<<>>), Given(<<"k">>)} :
         LET r == __init__(provider, api_key, env)
         IN  ctor' = [called |-> TRUE, api_key |-> api_key, kind |-> r.kind,
                      credential |-> r.credential]
    /\ UNCHANGED <<provider, use_mcp, rvars, gvars,
                   nodes, edges, adj_list, g_call, subgraph, graph_text,
                   graph_file, env, cache, llm_up,
                   events, today, e_call, e_kept, e_ret,
                   people, p_call, p_ret>>

SpecConstruct == InitConstruct /\ [][Construct]_vars

\* the environment holds a non-empty credential for the selected provider
EnvCredential ==
    /\ provider \in {"openai", "anthropic", "gemini"}
    /\ env[provider].given
    /\ env[provider].text # <<>>

\* C22: constructing the engine with no api_key argument and no credential
\* in the environment for the selected provider raises and yields no
\* engine, for every provider value, unrecognized ones included; an engine
\* that was constructed holds a non-empty credential
C22_NoCredentialNoEngine ==
    ctor.called =>
      /\ ctor.kind \in {"raise", "return"}
      /\ (~Truthy(ctor.api_key) /\ ~EnvCredential) =>
           (ctor.kind = "raise" /\ ctor.credential = Absent)
      /\ ctor.kind = "return" =>
           (ctor.credential.given /\ ctor.credential.text # <<>>)

\* an unrecognized provider constructed without api_key while the
\* environment holds the OpenAI credential: the constructor raised
C22_Witness ==
    /\ ctor.called
    /\ provider \notin KnownProviders
    /\ ~ctor.api_key.given
    /\ Truthy(env["openai"])
    /\ ctor.kind = "raise"

----------------------------------------------------------------------------
(* The cache of decompose_query (engine.py:45): functools.lru_cache keeps  *)
(* what a call returned under its arguments and returns it to every later  *)
(* call with the same arguments without running the method.                *)

\* the outcome of the LLM call for a question: the API raises while it is
\* down and gives the same one-line reply whenever it is up
LLMAnswer(prov, user_question, up) ==
    IF prov \notin KnownProviders THEN NoLLM
    ELSE IF up THEN [kind |-> "text", lines |-> <<"a">>]
    ELSE [kind |-> "raise", lines |-> <<>>]

\* SpecCache: a constructed engine with an empty cache, then any sequence
\* of decompose_query calls while the API, down at first or not, may recover
InitCache ==
    /\ provider \in Providers
    /\ use_mcp = TRUE
    /\ question = "Q"
    /\ RetrievalIdle
    /\ GenerateIdle
    /\ env = NoEnv
    /\ ctor = NoCtor
    /\ cache = <<>>
    /\ llm_up \in BOOLEAN
    /\ GraphIdle
    /\ EventsIdle
    /\ PeopleIdle

\* engine.decompose_query(q) through the lru_cache wrapper
DecomposeCached ==
    /\ \E q \in Questions \cup {"a"} :
         /\ question' = q
         /\ IF q \in DOMAIN cache
            THEN /\ llm_out' = NoLLM
                 /\ dq_ret' = [kind |-> "return", value |-> cache[q]]
                 /\ cache' = cache
            ELSE LET out == LLMAnswer(provider, q, llm_up)
                     r == decompose_query(provider, q, out)
                 IN  /\ llm_out' = out
                     /\ dq_ret' = r
                     /\ cache' = IF r.kind # "return" THEN cache
                                 ELSE [x \in DOMAIN cache \cup {q} |->
                                         IF x = q THEN r.value ELSE cache[x]]
    /\ r_op' = "decompose_query"
    /\ UNCHANGED <<provider, use_mcp, vs_calls, vs_out, ret_kind, all_chunks,
                   chunk_ids, gvars,
                   nodes, edges, adj_list, g_call, subgraph, graph_text,
                   graph_file, env, ctor, llm_up,
                   events, today, e_call, e_kept, e_ret,
                   people, p_call, p_ret>>

\* the LLM API comes back
LLMRecovers ==
    /\ ~llm_up
    /\ llm_up' = TRUE
    /\ UNCHANGED <<provider, use_mcp, rvars, gvars,
                   nodes, edges, adj_list, g_call, subgraph, graph_text,
                   graph_file, env, ctor, cache,
                   events, today, e_call, e_kept, e_ret,
                   people, p_call, p_ret>>

SpecCache == InitCache /\ [][DecomposeCached \/ LLMRecovers]_vars

\* C25: the cache of decompose_query is a pure optimization: every call of
\* a sequence of calls on one engine returns what the method would return
\* for that question at that moment without the cache; a fallback
\* [question] produced while the LLM was failing is not returned once the
\* LLM has recovered
C25_CacheIsPureOptimization ==
    [][llm_up' = llm_up =>
         dq_ret' = decompose_query(provider, question',
                                   LLMAnswer(provider, question', llm_up))]_vars

----------------------------------------------------------------------------
(* Claims about the system instruction of generate_response.               *)

\* the system instruction of the call was composed (lines 180-229)
Composed == messages # <<>> /\ messages[1].role = "system"

\* C23: when retrieval yields no chunks and the graph no matching node,
\* generate_response still returns an answer string, and the system
\* instruction holds an explicit placeholder text in each of the two empty
\* sections, graph context and website context, never an empty section
C23_PlaceholdersForEmptyContexts ==
    (Composed /\ ret_kind = "return" /\ all_chunks = <<>>
     /\ subgraph.nodes = <<>>) =>
      /\ messages[1].content.graph # <<>>
      /\ messages[1].content.context # <<>>
      /\ pc = "done" => (result.kind = "return" /\ result.value.type = "str")

\* the label a metadata field is formatted under
FieldLabel(field) ==
    CASE field = "meta_role" -> "Role"
      [] field = "meta_description" -> "Description"
      [] field = "meta_abstract" -> "Abstract"

\* the entry has a line with this label and this text
HasLine(entry, label, text) ==
    \E j \in 1..Len(entry) : entry[j].kind = label /\ entry[j].a = text

\* C26: the formatted context has one entry per retrieved chunk, in chunk
\* order; each entry holds the chunk's title, source URL and content, and
\* each of role, description and abstract that is non-empty in the chunk's
\* metadata, whatever its length
C26_EveryNonEmptyFieldFormatted ==
    (Composed /\ ret_kind = "return") =>
      LET context == messages[1].content.context
      IN  /\ Len(context) = Len(all_chunks)
          /\ \A k \in 1..Len(all_chunks) :
               LET meta == MetadataOf(all_chunks[k].metadata)
               IN  /\ meta.title.given =>
                        HasLine(context[k], "Title", meta.title.text)
                   /\ meta.url.given =>
                        HasLine(context[k], "Source URL", meta.url.text)
                   /\ HasLine(context[k], "Content", all_chunks[k].text)
                   /\ \A field \in {"meta_role", "meta_description",
                                    "meta_abstract"} :
                        Truthy(meta[field]) =>
                          HasLine(context[k], FieldLabel(field),
                                  meta[field].text)

\* C29: whenever the system instruction sent to a provider holds the tool
\* catalog and the standing permission to call tools, the same provider
\* call carries the tool definitions, for openai, anthropic and gemini;
\* with tool use disabled neither the catalog nor the definitions are sent
C29_CatalogOnlyWithToolDefinitions ==
    (Composed /\ provider \in KnownProviders /\ model_calls >= 1) =>
      /\ messages[1].content.catalog => tools_sent
      /\ ~use_mcp_tools => (~messages[1].content.catalog /\ ~tools_sent)

====
